---- MODULE Spec2Model ----
(***************************************************************************)
(* Model of the cross-layer context store of pofe                          *)
(* (src/src/context/context_manager.py): the `contexts` table of JSON      *)
(* layer documents, the derived `uid_index` table, the CRUD operations     *)
(* that maintain both, and the related_to traversal.                       *)
(***************************************************************************)
EXTENDS Integers, Sequences, FiniteSets, TLC

VARIABLES
    contexts,    \* table contexts: context_id -> JSON text of the document
    uid_index,   \* table uid_index: uid -> [context_id, data (JSON text)]
    ret,         \* the last call: operation, arguments, outcome, value
    lookups      \* the uids the last call passed to find_by_uid, in order

vars == <<contexts, uid_index, ret, lookups>>

(***************************************************************************)
(* Bounds of the model.                                                    *)
(***************************************************************************)
\* longest item list inside a document written to the store
MaxItems == 1
\* largest hop budget handed to a traversal
MaxDepth == 3
\* related_to entries over all items: a single traversal with all layers stored
MaxEdges == 4
\* related_to entries over all items: a batched traversal, or a layer missing
MaxEdgesSmall == 3
\* longest seed list of a batched traversal
MaxSeeds == 2
\* most files in an implementation document
MaxFiles == 2
\* most parts handed to make_uid
MaxParts == 2
\* most requirements in the stored list
MaxRequirements == 2

(***************************************************************************)
(* Python values.  Every value carries its type so that the code's         *)
(* duck-typed accesses (.get on a non-dict, iteration of a non-iterable)   *)
(* can fail in the model where they fail in Python.                        *)
(***************************************************************************)
PyNone == [py |-> "None"]
PyStr(s) == [py |-> "str", val |-> s]
PyInt(n) == [py |-> "int", num |-> n]
PyList(s) == [py |-> "list", items |-> s]
PyDict(m) == [py |-> "dict", map |-> m]
PyBool(b) == [py |-> "bool", truth |-> b]

EmptyMap == [k \in {} |-> PyNone]
EmptyDict == PyDict(EmptyMap)
EmptyList == PyList(<<>>)

\* d.get(k, default) on a dict d
DictGet(d, k, default) == IF k \in DOMAIN d.map THEN d.map[k] ELSE default

\* bool(v)
Truthy(v) ==
    CASE v.py = "None" -> FALSE
      [] v.py = "str"  -> v.val # ""
      [] v.py = "int"  -> v.num # 0
      [] v.py = "list" -> v.items # <<>>
      [] v.py = "dict" -> DOMAIN v.map # {}

(***************************************************************************)
(* JSON text.  json.dumps turns a Python value into text and json.loads    *)
(* parses text back; the tables hold text, never Python objects.           *)
(***************************************************************************)
JNull == [js |-> "null"]
JString(s) == [js |-> "string", chars |-> s]
JNumber(n) == [js |-> "number", digits |-> n]
JArray(s) == [js |-> "array", elements |-> s]
JObject(m) == [js |-> "object", members |-> m]

RECURSIVE json_dumps(_)
json_dumps(v) ==
    CASE v.py = "None" -> JNull
      [] v.py = "str"  -> JString(v.val)
      [] v.py = "int"  -> JNumber(v.num)
      [] v.py = "list" -> JArray([i \in 1..Len(v.items) |-> json_dumps(v.items[i])])
      [] v.py = "dict" -> JObject([k \in DOMAIN v.map |-> json_dumps(v.map[k])])

RECURSIVE json_loads(_)
json_loads(t) ==
    CASE t.js = "null"   -> PyNone
      [] t.js = "string" -> PyStr(t.chars)
      [] t.js = "number" -> PyInt(t.digits)
      [] t.js = "array"  -> PyList([i \in 1..Len(t.elements) |-> json_loads(t.elements[i])])
      [] t.js = "object" -> PyDict([k \in DOMAIN t.members |-> json_loads(t.members[k])])

(***************************************************************************)
(* _extract_uid_items: the (uid, item) pairs of a layer document, in the   *)
(* order the code appends them, or the exception the walk raises.          *)
(***************************************************************************)
Extracted(items) == [err |-> "ok", items |-> items]
ExtractRaises(e) == [err |-> e, items |-> <<>>]

\* `for r in v` : the elements the loop visits, or the TypeError of a
\* non-iterable.  A str iterates its characters and a dict its keys, all of
\* them str objects; one str stands for each such element.
Iterate(v) ==
    CASE v.py = "list" -> [err |-> "ok", elems |-> v.items]
      [] v.py = "str"  -> [err |-> "ok",
                           elems |-> IF v.val = "" THEN <<>> ELSE <<PyStr(v.val)>>]
      [] v.py = "dict" -> [err |-> "ok",
                           elems |-> IF DOMAIN v.map = {} THEN <<>>
                                     ELSE <<PyStr(CHOOSE k \in DOMAIN v.map : TRUE)>>]
      [] OTHER         -> [err |-> "TypeError", elems |-> <<>>]

\* x.get(...) exists only on a dict
HasGet(x) == x.py = "dict"

\* `for r in v: uid = r.get("uid"); if uid: items.append((uid, r))`
RECURSIVE WalkFrom(_, _)
WalkFrom(elems, i) ==
    IF i > Len(elems) THEN Extracted(<<>>)
    ELSE IF ~HasGet(elems[i]) THEN ExtractRaises("AttributeError")
    ELSE LET rest == WalkFrom(elems, i + 1)
             uid == DictGet(elems[i], "uid", PyNone)
         IN  IF rest.err # "ok" THEN rest
             ELSE IF Truthy(uid)
                  THEN Extracted(<<(<<uid, elems[i]>>)>> \o rest.items)
                  ELSE rest

WalkList(v) ==
    LET it == Iterate(v)
    IN  IF it.err # "ok" THEN ExtractRaises(it.err) ELSE WalkFrom(it.elems, 1)

\* the classes of one file: each class, then its methods
RECURSIVE WalkClasses(_, _)

\* WalkClasses with the methods loop inside `if uid:`
WalkClassesNeedsUid(elems, i) ==
    IF i > Len(elems) THEN Extracted(<<>>)
    ELSE IF ~HasGet(elems[i]) THEN ExtractRaises("AttributeError")
    ELSE LET cls == elems[i]
             uid == DictGet(cls, "uid", PyNone)
             own == IF Truthy(uid) THEN <<(<<uid, cls>>)>> ELSE <<>>
             mtds == IF Truthy(uid) THEN WalkList(DictGet(cls, "methods", EmptyList))
                     ELSE Extracted(<<>>)
         IN  IF mtds.err # "ok" THEN mtds
             ELSE LET rest == WalkClasses(elems, i + 1)
                  IN  IF rest.err # "ok" THEN rest
                      ELSE Extracted(own \o mtds.items \o rest.items)

WalkClasses(elems, i) ==
    IF i > Len(elems) THEN Extracted(<<>>)
    ELSE IF ~HasGet(elems[i]) THEN ExtractRaises("AttributeError")
    ELSE LET cls == elems[i]
             uid == DictGet(cls, "uid", PyNone)
             own == IF Truthy(uid) THEN <<(<<uid, cls>>)>> ELSE <<>>
             mtds == WalkList(DictGet(cls, "methods", EmptyList))
         IN  IF mtds.err # "ok" THEN mtds
             ELSE LET rest == WalkClasses(elems, i + 1)
                  IN  IF rest.err # "ok" THEN rest
                      ELSE Extracted(own \o mtds.items \o rest.items)

\* the files of the implementation layer: classes, then functions
RECURSIVE WalkFiles(_, _)
WalkFiles(elems, i) ==
    IF i > Len(elems) THEN Extracted(<<>>)
    ELSE IF ~HasGet(elems[i]) THEN ExtractRaises("AttributeError")
    ELSE LET f == elems[i]
             cit == Iterate(DictGet(f, "classes", EmptyList))
             classes == IF cit.err # "ok" THEN ExtractRaises(cit.err)
                        ELSE WalkClasses(cit.elems, 1)
         IN  IF classes.err # "ok" THEN classes
             ELSE LET fns == WalkList(DictGet(f, "functions", EmptyList))
                  IN  IF fns.err # "ok" THEN fns
                      ELSE LET rest == WalkFiles(elems, i + 1)
                           IN  IF rest.err # "ok" THEN rest
                               ELSE Extracted(classes.items \o fns.items \o rest.items)

_extract_uid_items(context_id, data) ==
    CASE context_id = "requirements" ->
            WalkList(DictGet(data, "requirements", EmptyList))
      [] context_id = "architecture" ->
            LET arch == DictGet(data, "architecture", EmptyDict)
            IN  IF ~HasGet(arch) THEN ExtractRaises("AttributeError")
                ELSE WalkList(DictGet(arch, "components", EmptyList))
      [] context_id = "implementation" ->
            LET it == Iterate(DictGet(data, "files", EmptyList))
            IN  IF it.err # "ok" THEN ExtractRaises(it.err)
                ELSE WalkFiles(it.elems, 1)
      [] OTHER -> Extracted(<<>>)

(***************************************************************************)
(* The two tables.  A table is a function from its primary keys to rows.   *)
(***************************************************************************)
EmptyTable == [k \in {} |-> PyNone]

\* INSERT OR REPLACE INTO t (key, ...) VALUES (k, row)
Upsert(t, k, row) == [x \in DOMAIN t \cup {k} |-> IF x = k THEN row ELSE t[x]]

\* DELETE FROM t WHERE key = k
DeleteKey(t, k) == [x \in DOMAIN t \ {k} |-> t[x]]

\* DELETE FROM uid_index
DeleteAll(idx) == [u \in {} |-> idx[u]]

\* the DELETE of a layer's rows comparing the wrong column
DeleteIndexByUid(idx, context_id) ==
    [u \in {x \in DOMAIN idx : x # context_id} |-> idx[u]]

\* DELETE FROM uid_index WHERE context_id = ?
DeleteIndexOf(idx, context_id) ==
    [u \in {x \in DOMAIN idx : idx[x].context_id # context_id} |-> idx[u]]

IndexRow(context_id, item) == [context_id |-> context_id, data |-> json_dumps(item)]

\* the INSERT OR REPLACE loop of _reindex_context, pair by pair
RECURSIVE InsertPairs(_, _, _, _)
InsertPairs(idx, context_id, pairs, i) ==
    IF i > Len(pairs) THEN idx
    ELSE InsertPairs(Upsert(idx, pairs[i][1].val, IndexRow(context_id, pairs[i][2])),
                     context_id, pairs, i + 1)

\* _reindex_context: the index it leaves and the exception it raises, if any.
\* The DELETE has run before the document is walked.
_reindex_context(idx, context_id, data) ==
    LET cleared == DeleteIndexOf(idx, context_id)
        ex == _extract_uid_items(context_id, data)
    IN  IF ex.err # "ok"
        THEN [err |-> ex.err, uid_index |-> cleared]
        ELSE [err |-> "ok", uid_index |-> InsertPairs(cleared, context_id, ex.items, 1)]

\* context_exists
context_exists(ctxs, context_id) == context_id \in DOMAIN ctxs

\* list_contexts (ORDER BY is not observable in a set)
list_contexts(ctxs) == DOMAIN ctxs

\* the value read_context returns for a stored layer
read_value(ctxs, context_id) == json_loads(ctxs[context_id])

\* find_by_uid answering an unknown uid with an empty dict
FindByUidEmptyDict(idx, uid) ==
    IF uid \in DOMAIN idx THEN json_loads(idx[uid].data) ELSE EmptyDict

\* find_by_uid: the item, or None
find_by_uid(idx, uid) == IF uid \in DOMAIN idx THEN json_loads(idx[uid].data) ELSE PyNone

\* existing.update(data)
dict_update(existing, data) ==
    PyDict([k \in DOMAIN existing.map \cup DOMAIN data.map |->
                IF k \in DOMAIN data.map THEN data.map[k] ELSE existing.map[k]])

(***************************************************************************)
(* _rebuild_uid_index: clear the index, then reindex every stored layer in *)
(* the order list_contexts gives them (ORDER BY context_id).               *)
(***************************************************************************)
SortedContextIds ==
    << "architecture", "ideas", "implementation", "overview", "requirements" >>

RECURSIVE RebuildFrom(_, _, _)
RebuildFrom(ctxs, idx, i) ==
    IF i > Len(SortedContextIds) THEN [err |-> "ok", uid_index |-> idx]
    ELSE IF ~context_exists(ctxs, SortedContextIds[i]) THEN RebuildFrom(ctxs, idx, i + 1)
    ELSE LET re == _reindex_context(idx, SortedContextIds[i],
                                    read_value(ctxs, SortedContextIds[i]))
         IN  IF re.err # "ok" THEN re ELSE RebuildFrom(ctxs, re.uid_index, i + 1)

\* _rebuild_uid_index without its DELETE FROM uid_index
RebuildKeepsRows(ctxs, idx) == RebuildFrom(ctxs, idx, 1)

_rebuild_uid_index(ctxs, idx) == RebuildFrom(ctxs, DeleteAll(idx), 1)

(***************************************************************************)
(* The traversal.  A traversal state is what _traverse mutates: the        *)
(* collected dict, the visited set, and (for observation) the uids passed  *)
(* to find_by_uid so far.                                                  *)
(***************************************************************************)
\* item.get("related_to", []) as the uids the loop visits
RefsOf(item) ==
    LET refs == DictGet(item, "related_to", EmptyList).items
    IN  [i \in 1..Len(refs) |-> refs[i].val]

RECURSIVE _traverse(_, _, _, _)
RECURSIVE TraverseRefs(_, _, _, _, _)

\* TraverseRefs without the visited test
TraverseRefsRevisits(idx, refs, i, depth, st) ==
    IF i > Len(refs) THEN st
    ELSE LET seen == [st EXCEPT !.visited = @ \cup {refs[i]},
                                !.lookups = Append(@, refs[i])]
             ref_item == find_by_uid(idx, refs[i])
         IN  IF ref_item # PyNone
             THEN TraverseRefs(idx, refs, i + 1, depth,
                      _traverse(idx, ref_item, depth - 1,
                                [seen EXCEPT !.collected = Upsert(@, refs[i], ref_item)]))
             ELSE TraverseRefs(idx, refs, i + 1, depth, seen)

\* TraverseRefs leaving the loop at the first reference it cannot resolve
TraverseRefsStopsAtDangling(idx, refs, i, depth, st) ==
    IF i > Len(refs) THEN st
    ELSE IF refs[i] \in st.visited THEN TraverseRefs(idx, refs, i + 1, depth, st)
    ELSE LET seen == [st EXCEPT !.visited = @ \cup {refs[i]},
                                !.lookups = Append(@, refs[i])]
             ref_item == find_by_uid(idx, refs[i])
         IN  IF ref_item # PyNone
             THEN TraverseRefs(idx, refs, i + 1, depth,
                      _traverse(idx, ref_item, depth - 1,
                                [seen EXCEPT !.collected = Upsert(@, refs[i], ref_item)]))
             ELSE seen

\* the `for ref_uid in ...` loop of _traverse from its i-th reference on
TraverseRefs(idx, refs, i, depth, st) ==
    IF i > Len(refs) THEN st
    ELSE IF refs[i] \in st.visited THEN TraverseRefs(idx, refs, i + 1, depth, st)
    ELSE LET seen == [st EXCEPT !.visited = @ \cup {refs[i]},
                                !.lookups = Append(@, refs[i])]
             ref_item == find_by_uid(idx, refs[i])
         IN  IF ref_item # PyNone
             THEN TraverseRefs(idx, refs, i + 1, depth,
                      _traverse(idx, ref_item, depth - 1,
                                [seen EXCEPT !.collected = Upsert(@, refs[i], ref_item)]))
             ELSE TraverseRefs(idx, refs, i + 1, depth, seen)

\* _traverse returning only below a budget of 0
TraverseOneHopMore(idx, item, depth, st) ==
    IF depth < 0 THEN st ELSE TraverseRefs(idx, RefsOf(item), 1, depth, st)

_traverse(idx, item, depth, st) ==
    IF depth <= 0 THEN st ELSE TraverseRefs(idx, RefsOf(item), 1, depth, st)

\* gather_related: the returned dict and the lookups made
gather_related(idx, uid, depth) ==
    LET root == find_by_uid(idx, uid)
    IN  IF root = PyNone
        THEN [value |-> [root |-> PyNone, related |-> EmptyTable], lookups |-> <<uid>>]
        ELSE LET st == _traverse(idx, root, depth,
                                 [collected |-> EmptyTable, visited |-> {uid},
                                  lookups |-> <<uid>>])
             IN  [value |-> [root |-> root, related |-> st.collected],
                  lookups |-> st.lookups]

\* the first loop of gather_related_batch: the seeds found, in the order the
\* items dict holds them, and the lookups made
RECURSIVE BatchSeeds(_, _, _, _)
BatchSeeds(idx, uids, i, acc) ==
    IF i > Len(uids) THEN acc
    ELSE LET looked == [acc EXCEPT !.lookups = Append(@, uids[i])]
         IN  IF find_by_uid(idx, uids[i]) = PyNone
             THEN BatchSeeds(idx, uids, i + 1, looked)
             ELSE BatchSeeds(idx, uids, i + 1,
                    [looked EXCEPT
                       !.order = IF uids[i] \in DOMAIN acc.items THEN @
                                 ELSE Append(@, uids[i]),
                       !.items = Upsert(@, uids[i], find_by_uid(idx, uids[i]))])

\* the second loop: one _traverse per seed, sharing collected and visited
RECURSIVE BatchTraverse(_, _, _, _, _, _)
BatchTraverse(idx, items, order, i, depth, st) ==
    IF i > Len(order) THEN st
    ELSE BatchTraverse(idx, items, order, i + 1, depth,
                       _traverse(idx, items[order[i]], depth, st))

\* gather_related_batch with the seeds neither marked visited nor removed
GatherBatchKeepsSeeds(idx, uids, depth) ==
    LET seeds == BatchSeeds(idx, uids, 1,
                            [items |-> EmptyTable, order |-> <<>>, lookups |-> <<>>])
        st == BatchTraverse(idx, seeds.items, seeds.order, 1, depth,
                            [collected |-> EmptyTable, visited |-> {},
                             lookups |-> seeds.lookups])
    IN  [value |-> [items |-> seeds.items, related |-> st.collected],
         lookups |-> st.lookups]

\* gather_related_batch handing _traverse a budget one hop short
GatherBatchOneHopShort(idx, uids, depth) ==
    LET seeds == BatchSeeds(idx, uids, 1,
                            [items |-> EmptyTable, order |-> <<>>, lookups |-> <<>>])
        st == BatchTraverse(idx, seeds.items, seeds.order, 1, depth - 1,
                            [collected |-> EmptyTable, visited |-> DOMAIN seeds.items,
                             lookups |-> seeds.lookups])
        related == [u \in DOMAIN st.collected \ DOMAIN seeds.items |-> st.collected[u]]
    IN  [value |-> [items |-> seeds.items, related |-> related], lookups |-> st.lookups]

gather_related_batch(idx, uids, depth) ==
    LET seeds == BatchSeeds(idx, uids, 1,
                            [items |-> EmptyTable, order |-> <<>>, lookups |-> <<>>])
        st == BatchTraverse(idx, seeds.items, seeds.order, 1, depth,
                            [collected |-> EmptyTable, visited |-> DOMAIN seeds.items,
                             lookups |-> seeds.lookups])
        related == [u \in DOMAIN st.collected \ DOMAIN seeds.items |-> st.collected[u]]
    IN  [value |-> [items |-> seeds.items, related |-> related], lookups |-> st.lookups]

(***************************************************************************)
(* The calls.  Each operator takes the tables as the connection sees them  *)
(* and gives the tables and the outcome the call leaves behind.  A call    *)
(* that raises between its execute() and its commit() is not rolled back:  *)
(* the connection keeps serving what the statements already wrote.         *)
(***************************************************************************)
Outcome(ctxs, idx, raises, value) ==
    [contexts |-> ctxs, uid_index |-> idx, raises |-> raises, value |-> value]

\* create_context replacing the document of a layer that already has one
CreateOverwrites(ctxs, idx, context_id, data) ==
    LET written == Upsert(ctxs, context_id, json_dumps(data))
        re == _reindex_context(idx, context_id, data)
    IN  IF re.err # "ok"
        THEN Outcome(written, re.uid_index, re.err, PyNone)
        ELSE Outcome(written, re.uid_index, "none", PyStr("created"))

create_context(ctxs, idx, context_id, data) ==
    IF context_exists(ctxs, context_id)
    THEN Outcome(ctxs, idx, "FileExistsError", PyNone)
    ELSE LET written == Upsert(ctxs, context_id, json_dumps(data))
             re == _reindex_context(idx, context_id, data)
         IN  IF re.err # "ok"
             THEN Outcome(written, re.uid_index, re.err, PyNone)
             ELSE Outcome(written, re.uid_index, "none", PyStr("created"))

\* read_context answering a missing layer with an empty document
ReadContextDefaults(ctxs, idx, context_id) ==
    IF ~context_exists(ctxs, context_id)
    THEN Outcome(ctxs, idx, "none", EmptyDict)
    ELSE Outcome(ctxs, idx, "none", read_value(ctxs, context_id))

read_context(ctxs, idx, context_id) ==
    IF ~context_exists(ctxs, context_id)
    THEN Outcome(ctxs, idx, "FileNotFoundError", PyNone)
    ELSE Outcome(ctxs, idx, "none", read_value(ctxs, context_id))

\* update_context merging whenever the layer exists, whatever `merge` says
UpdateAlwaysMerges(ctxs, idx, context_id, data, merge) ==
    LET stored == IF context_exists(ctxs, context_id)
                  THEN dict_update(read_value(ctxs, context_id), data)
                  ELSE data
        written == Upsert(ctxs, context_id, json_dumps(stored))
        re == _reindex_context(idx, context_id, stored)
    IN  IF re.err # "ok"
        THEN Outcome(written, re.uid_index, re.err, PyNone)
        ELSE Outcome(written, re.uid_index, "none", PyStr("updated"))

\* update_context indexing the argument instead of the merged document
UpdateIndexesArgument(ctxs, idx, context_id, data, merge) ==
    LET stored == IF merge /\ context_exists(ctxs, context_id)
                  THEN dict_update(read_value(ctxs, context_id), data)
                  ELSE data
        written == Upsert(ctxs, context_id, json_dumps(stored))
        re == _reindex_context(idx, context_id, data)
    IN  IF re.err # "ok"
        THEN Outcome(written, re.uid_index, re.err, PyNone)
        ELSE Outcome(written, re.uid_index, "none", PyStr("updated"))

\* update_context reading the existing document whenever `merge` is set
UpdateRequiresLayer(ctxs, idx, context_id, data, merge) ==
    IF merge /\ ~context_exists(ctxs, context_id)
    THEN Outcome(ctxs, idx, "FileNotFoundError", PyNone)
    ELSE LET stored == IF merge
                       THEN dict_update(read_value(ctxs, context_id), data)
                       ELSE data
             written == Upsert(ctxs, context_id, json_dumps(stored))
             re == _reindex_context(idx, context_id, stored)
         IN  IF re.err # "ok"
             THEN Outcome(written, re.uid_index, re.err, PyNone)
             ELSE Outcome(written, re.uid_index, "none", PyStr("updated"))

update_context(ctxs, idx, context_id, data, merge) ==
    LET stored == IF merge /\ context_exists(ctxs, context_id)
                  THEN dict_update(read_value(ctxs, context_id), data)
                  ELSE data
        written == Upsert(ctxs, context_id, json_dumps(stored))
        re == _reindex_context(idx, context_id, stored)
    IN  IF re.err # "ok"
        THEN Outcome(written, re.uid_index, re.err, PyNone)
        ELSE Outcome(written, re.uid_index, "none", PyStr("updated"))

\* remove_context deleting the document row only
RemoveKeepsIndex(ctxs, idx, context_id) ==
    IF ~context_exists(ctxs, context_id)
    THEN Outcome(ctxs, idx, "FileNotFoundError", PyNone)
    ELSE Outcome(DeleteKey(ctxs, context_id), idx, "none", PyStr("removed"))

remove_context(ctxs, idx, context_id) ==
    IF ~context_exists(ctxs, context_id)
    THEN Outcome(ctxs, idx, "FileNotFoundError", PyNone)
    ELSE Outcome(DeleteKey(ctxs, context_id), DeleteIndexOf(idx, context_id),
                 "none", PyStr("removed"))

(***************************************************************************)
(* Inputs of the store specification: layer names and documents.           *)
(***************************************************************************)
ContextIds == {"requirements", "architecture", "overview"}

\* the uids of the documents below, and one that no document carries
StoreUids == {"req-1", "arch-1", "req-9"}

Requirement(uid, status) == PyDict([uid |-> PyStr(uid), status |-> PyStr(status)])
Component(uid) == PyDict([uid |-> PyStr(uid), component |-> PyStr("c")])

\* what a "requirements" list may hold: an addressable item in two versions
\* and an entry that is no object at all
RequirementEntries ==
    << Requirement("req-1", "new"), Requirement("req-1", "reviewed"), PyStr("oops") >>

\* what a "components" list may hold; one component reuses a requirement's uid
ComponentEntries == << Component("arch-1"), Component("req-1") >>

\* the entries of `entries` at the positions in `keep`, in their order
Pick(entries, keep) ==
    LET upto[i \in 0..Len(entries)] ==
            IF i = 0 THEN <<>>
            ELSE IF i \in keep THEN Append(upto[i - 1], entries[i])
            ELSE upto[i - 1]
    IN  upto[Len(entries)]

\* the lists of at most MaxItems of the entries
ListsOf(entries) ==
    { Pick(entries, keep) :
        keep \in {k \in SUBSET (1..Len(entries)) : Cardinality(k) <= MaxItems} }

\* the dicts with some of the given keys, each key with one of its values
DictsOver(choices) ==
    UNION { [ks -> UNION {choices[k] : k \in ks}] : ks \in SUBSET DOMAIN choices }

WellKeyed(m, choices) == \A k \in DOMAIN m : m[k] \in choices[k]

DictsOf(choices) ==
    { PyDict(m) : m \in {x \in DictsOver(choices) : WellKeyed(x, choices)} }

RequirementsDocs ==
    DictsOf([requirements |-> {PyList(l) : l \in ListsOf(RequirementEntries)},
             note |-> {PyInt(0)}])

\* the value under "architecture": an object with its components, or a list
ArchitectureValues ==
    { v \in DictsOf([components |-> {PyList(l) : l \in ListsOf(ComponentEntries)},
                     style |-> {PyStr("layered")}]) : "components" \in DOMAIN v.map }
    \cup {EmptyList}

ArchitectureDocs == DictsOf([architecture |-> ArchitectureValues])

OverviewDocs == DictsOf([note |-> {PyInt(0)}])

DocsFor(context_id) ==
    CASE context_id = "requirements" -> RequirementsDocs
      [] context_id = "architecture" -> ArchitectureDocs
      [] OTHER -> OverviewDocs

(***************************************************************************)
(* The store specification: a fresh database, then any sequence of calls.  *)
(***************************************************************************)
Call(op, args, out) == [op |-> op, args |-> args, raises |-> out.raises, value |-> out.value]

NoCall == [op |-> "init", args |-> <<>>, raises |-> "none", value |-> PyNone]

Init ==
    /\ contexts = EmptyTable
    /\ uid_index = EmptyTable
    /\ ret = NoCall
    /\ lookups = <<>>

\* A create_context that finds the layer present raises before it looks at
\* the document, so no document is drawn for that call.
CreateContext ==
    \E context_id \in ContextIds :
        \E data \in IF context_exists(contexts, context_id) THEN {EmptyDict}
                    ELSE DocsFor(context_id) :
            LET out == create_context(contexts, uid_index, context_id, data)
            IN  /\ contexts' = out.contexts
                /\ uid_index' = out.uid_index
                /\ ret' = Call("create_context",
                               [context_id |-> context_id, data |-> data], out)
                /\ lookups' = <<>>

ReadContext ==
    \E context_id \in ContextIds :
        LET out == read_context(contexts, uid_index, context_id)
        IN  /\ ret' = Call("read_context", [context_id |-> context_id], out)
            /\ lookups' = <<>>
            /\ UNCHANGED <<contexts, uid_index>>

UpdateContext ==
    \E context_id \in ContextIds : \E data \in DocsFor(context_id) : \E merge \in BOOLEAN :
        LET out == update_context(contexts, uid_index, context_id, data, merge)
        IN  /\ contexts' = out.contexts
            /\ uid_index' = out.uid_index
            /\ ret' = Call("update_context",
                           [context_id |-> context_id, data |-> data, merge |-> merge], out)
            /\ lookups' = <<>>

RemoveContext ==
    \E context_id \in ContextIds :
        LET out == remove_context(contexts, uid_index, context_id)
        IN  /\ contexts' = out.contexts
            /\ uid_index' = out.uid_index
            /\ ret' = Call("remove_context", [context_id |-> context_id], out)
            /\ lookups' = <<>>

FindByUid ==
    \E uid \in StoreUids :
        /\ ret' = [op |-> "find_by_uid", args |-> [uid |-> uid], raises |-> "none",
                   value |-> find_by_uid(uid_index, uid)]
        /\ lookups' = <<uid>>
        /\ UNCHANGED <<contexts, uid_index>>

Next ==
    \/ CreateContext
    \/ ReadContext
    \/ UpdateContext
    \/ RemoveContext
    \/ FindByUid

Spec == Init /\ [][Next]_vars

(***************************************************************************)
(* The review workflow of main.py.  It calls find_by_status and            *)
(* update_item_status on the shared ContextManager; a method call on an    *)
(* object first looks the name up among the attributes of the object.      *)
(***************************************************************************)
\* the attributes of a ContextManager: what __init__ sets and the class defines
ContextManagerAttributes ==
    { "_dir", "_db_path", "_conn", "_ensure_schema",
      "create_context", "read_context", "update_context", "remove_context",
      "list_contexts", "context_exists", "dump_to_json",
      "find_by_uid", "gather_related", "gather_related_batch", "_traverse",
      "_rebuild_uid_index", "_reindex_context", "_extract_uid_items" }

\* ctx.<name>: the exception of the attribute lookup, if any
GetAttr(name) == IF name \in ContextManagerAttributes THEN "none" ELSE "AttributeError"

\* the statuses review_items asks for and advances to
ReviewStatuses == {"new", "reviewed", "done"}

\* ctx.find_by_status(status)
FindByStatus ==
    \E status \in ReviewStatuses \ {"done"} :
        /\ ret' = [op |-> "find_by_status", args |-> [status |-> status],
                   raises |-> GetAttr("find_by_status"), value |-> PyNone]
        /\ lookups' = <<>>
        /\ UNCHANGED <<contexts, uid_index>>

\* ctx.update_item_status(uid, next_status)
UpdateItemStatus ==
    \E uid \in StoreUids : \E new_status \in ReviewStatuses \ {"new"} :
        /\ ret' = [op |-> "update_item_status",
                   args |-> [uid |-> uid, new_status |-> new_status],
                   raises |-> GetAttr("update_item_status"), value |-> PyNone]
        /\ lookups' = <<>>
        /\ UNCHANGED <<contexts, uid_index>>

\* review_items(): its first statement is ctx.find_by_status("new")
ReviewItems ==
    /\ ret' = [op |-> "review_items", args |-> <<>>,
               raises |-> GetAttr("find_by_status"), value |-> PyNone]
    /\ lookups' = <<>>
    /\ UNCHANGED <<contexts, uid_index>>

NextReview ==
    \/ CreateContext
    \/ FindByStatus
    \/ UpdateItemStatus
    \/ ReviewItems

SpecReview == Init /\ [][NextReview]_vars

(***************************************************************************)
(* The traversal specifications.  The store is constructed over a database *)
(* that already holds layer documents (__init__ rebuilds the index from    *)
(* them); the documents carry four items whose related_to lists are drawn  *)
(* freely.  The implementation layer may be missing, and then every        *)
(* reference to its item dangles.  A traversal only reads the tables, so   *)
(* its outcome does not depend on the calls before it: each behaviour      *)
(* makes one call on the constructed store.                                *)
(***************************************************************************)
GraphUids == << "req-a", "req-b", "arch-c", "fn-d" >>

RefTargets == {GraphUids[i] : i \in 1..Len(GraphUids)}

GraphItem(uid, refs) ==
    PyDict([uid |-> PyStr(uid),
            related_to |-> PyList([i \in 1..Len(refs) |-> PyStr(refs[i])])])

RefListsUpTo(budget) == UNION {[1..k -> RefTargets] : k \in 0..budget}

RequirementsOf(g) ==
    PyDict([requirements |->
              PyList(<<GraphItem("req-a", g[1]), GraphItem("req-b", g[2])>>)])

ArchitectureOf(g) ==
    PyDict([architecture |->
              PyDict([components |-> PyList(<<GraphItem("arch-c", g[3])>>)])])

ImplementationOf(g) ==
    PyDict([files |->
              PyList(<<PyDict([path |-> PyStr("a.py"),
                               classes |-> EmptyList,
                               functions |-> PyList(<<GraphItem("fn-d", g[4])>>)])>>)])

\* the contexts table holding the first Len(g) items
GraphContexts(g) ==
    [context_id \in {"requirements", "architecture"}
                    \cup (IF Len(g) = 4 THEN {"implementation"} ELSE {}) |->
        CASE context_id = "requirements" -> json_dumps(RequirementsOf(g))
          [] context_id = "architecture" -> json_dumps(ArchitectureOf(g))
          [] OTHER -> json_dumps(ImplementationOf(g))]

\* the state __init__ leaves over a database that holds the graph's documents
Constructed(g) ==
    /\ contexts = GraphContexts(g)
    /\ uid_index = _rebuild_uid_index(GraphContexts(g), EmptyTable).uid_index
    /\ ret = NoCall
    /\ lookups = <<>>

\* the implementation layer missing: three items, `budget` references in all
Constructed3(budget) ==
    \E a \in RefListsUpTo(budget) :
    \E b \in RefListsUpTo(budget - Len(a)) :
    \E c \in RefListsUpTo(budget - Len(a) - Len(b)) :
        Constructed(<<a, b, c>>)

\* all layers stored: four items, `budget` references in all
Constructed4(budget) ==
    \E a \in RefListsUpTo(budget) :
    \E b \in RefListsUpTo(budget - Len(a)) :
    \E c \in RefListsUpTo(budget - Len(a) - Len(b)) :
    \E d \in RefListsUpTo(budget - Len(a) - Len(b) - Len(c)) :
        Constructed(<<a, b, c, d>>)

InitGather == Constructed3(MaxEdgesSmall) \/ Constructed4(MaxEdges)

\* The items of the first three uids are drawn alike, so "req-a" stands for
\* each of them as a seed; "fn-d" is the one that may be unknown.
SeedUids == {"req-a", "fn-d"}

GatherRelated ==
    /\ ret = NoCall
    /\ \E uid \in SeedUids : \E depth \in 0..MaxDepth :
        LET out == gather_related(uid_index, uid, depth)
        IN  /\ ret' = [op |-> "gather_related", args |-> [uid |-> uid, depth |-> depth],
                       raises |-> "none", value |-> out.value]
            /\ lookups' = out.lookups
            /\ UNCHANGED <<contexts, uid_index>>

NextGather == GatherRelated

SpecGather == InitGather /\ [][NextGather]_vars

InitBatch == Constructed3(MaxEdgesSmall) \/ Constructed4(MaxEdgesSmall)

\* seed lists: with repeats, and with "fn-d", unknown when its layer is missing
SeedLists == UNION {[1..k -> SeedUids] : k \in 0..MaxSeeds}

GatherRelatedBatch ==
    /\ ret = NoCall
    /\ \E uids \in SeedLists : \E depth \in 0..MaxDepth :
        LET out == gather_related_batch(uid_index, uids, depth)
        IN  /\ ret' = [op |-> "gather_related_batch",
                       args |-> [uids |-> uids, depth |-> depth],
                       raises |-> "none", value |-> out.value]
            /\ lookups' = out.lookups
            /\ UNCHANGED <<contexts, uid_index>>

NextBatch ==
    \/ GatherRelated
    \/ GatherRelatedBatch

SpecBatch == InitBatch /\ [][NextBatch]_vars

(***************************************************************************)
(* The startup specification.  A database left by an earlier process holds *)
(* layer documents and whatever rows its uid_index table was left with;    *)
(* constructing a ContextManager over it runs _ensure_schema, which        *)
(* rebuilds the index.  A construction that raises never commits, and the  *)
(* database keeps the rows it had.                                         *)
(***************************************************************************)
\* the contexts tables an earlier process may have committed
PersistedContexts ==
    { [context_id \in present |-> json_dumps(docs[context_id])] :
        present \in SUBSET ContextIds,
        docs \in [requirements : RequirementsDocs,
                  architecture : ArchitectureDocs,
                  overview : OverviewDocs] }

\* rows left in uid_index: of a stored layer or of a layer since removed
StaleRows(uid) ==
    { IndexRow(context_id, Requirement(uid, "done")) :
        context_id \in {"requirements", "ideas"} }

StaleIndexes ==
    UNION { {idx \in [uids -> UNION {StaleRows(u) : u \in uids}] :
                \A u \in uids : idx[u] \in StaleRows(u)} :
            uids \in SUBSET StoreUids }

InitStartup ==
    /\ contexts \in PersistedContexts
    /\ uid_index \in StaleIndexes
    /\ ret = NoCall
    /\ lookups = <<>>

\* ContextManager(context_dir) over the existing database
Construct ==
    /\ ret = NoCall
    /\ LET re == _rebuild_uid_index(contexts, uid_index)
       IN  /\ uid_index' = IF re.err = "ok" THEN re.uid_index ELSE uid_index
           /\ ret' = [op |-> "__init__", args |-> <<>>,
                      raises |-> IF re.err = "ok" THEN "none" ELSE re.err,
                      value |-> PyNone]
    /\ lookups' = <<>>
    /\ UNCHANGED contexts

\* find_by_uid served by the constructed store
FindAfterConstruct ==
    /\ ret.op # "init"
    /\ ret.raises = "none"
    /\ FindByUid

NextStartup ==
    \/ Construct
    \/ FindAfterConstruct

SpecStartup == InitStartup /\ [][NextStartup]_vars

(***************************************************************************)
(* make_uid (src/src/uid.py).  A str is a sequence of one-character        *)
(* strings.  hashlib.sha256 is computed as FIPS 180-4 defines it, on       *)
(* 32-bit words held as two 16-bit halves; keys are short enough to pad    *)
(* into a single 512-bit block.                                            *)
(***************************************************************************)
\* a 32-bit word is <<upper 16 bits, lower 16 bits>>
\* exclusive or of two 4-bit numbers x and y, at index 16 * x + y + 1
XorNibbles ==
    << 0,  1,  2,  3,  4,  5,  6,  7,  8,  9, 10, 11, 12, 13, 14, 15,
       1,  0,  3,  2,  5,  4,  7,  6,  9,  8, 11, 10, 13, 12, 15, 14,
       2,  3,  0,  1,  6,  7,  4,  5, 10, 11,  8,  9, 14, 15, 12, 13,
       3,  2,  1,  0,  7,  6,  5,  4, 11, 10,  9,  8, 15, 14, 13, 12,
       4,  5,  6,  7,  0,  1,  2,  3, 12, 13, 14, 15,  8,  9, 10, 11,
       5,  4,  7,  6,  1,  0,  3,  2, 13, 12, 15, 14,  9,  8, 11, 10,
       6,  7,  4,  5,  2,  3,  0,  1, 14, 15, 12, 13, 10, 11,  8,  9,
       7,  6,  5,  4,  3,  2,  1,  0, 15, 14, 13, 12, 11, 10,  9,  8,
       8,  9, 10, 11, 12, 13, 14, 15,  0,  1,  2,  3,  4,  5,  6,  7,
       9,  8, 11, 10, 13, 12, 15, 14,  1,  0,  3,  2,  5,  4,  7,  6,
      10, 11,  8,  9, 14, 15, 12, 13,  2,  3,  0,  1,  6,  7,  4,  5,
      11, 10,  9,  8, 15, 14, 13, 12,  3,  2,  1,  0,  7,  6,  5,  4,
      12, 13, 14, 15,  8,  9, 10, 11,  4,  5,  6,  7,  0,  1,  2,  3,
      13, 12, 15, 14,  9,  8, 11, 10,  5,  4,  7,  6,  1,  0,  3,  2,
      14, 15, 12, 13, 10, 11,  8,  9,  6,  7,  4,  5,  2,  3,  0,  1,
      15, 14, 13, 12, 11, 10,  9,  8,  7,  6,  5,  4,  3,  2,  1,  0 >>

\* bitwise exclusive or of two 16-bit numbers
RECURSIVE Xor16(_, _)
Xor16(x, y) ==
    IF x = 0 THEN y ELSE IF y = 0 THEN x
    ELSE XorNibbles[(x % 16) * 16 + (y % 16) + 1] + 16 * Xor16(x \div 16, y \div 16)

\* bitwise and of two 16-bit numbers: x + y = (x xor y) + 2 * (x and y)
And16(x, y) == (x + y - Xor16(x, y)) \div 2

Xor(a, b) == << Xor16(a[1], b[1]), Xor16(a[2], b[2]) >>
And(a, b) == << And16(a[1], b[1]), And16(a[2], b[2]) >>
Not(a) == << 65535 - a[1], 65535 - a[2] >>

\* rotation and shift to the right by n bits, 0 < n < 32
RotR(a, n) ==
    LET hi == IF n < 16 THEN a[1] ELSE a[2]
        lo == IF n < 16 THEN a[2] ELSE a[1]
        m == n % 16
    IN  << (hi \div 2^m) + (lo % 2^m) * 2^(16 - m),
           (lo \div 2^m) + (hi % 2^m) * 2^(16 - m) >>

ShR(a, n) ==
    IF n < 16 THEN << a[1] \div 2^n, (a[2] \div 2^n) + (a[1] % 2^n) * 2^(16 - n) >>
    ELSE << 0, a[1] \div 2^(n - 16) >>

\* addition modulo 2^32
Add(a, b) ==
    LET lo == a[2] + b[2]
        hi == a[1] + b[1] + lo \div 65536
    IN  << hi % 65536, lo % 65536 >>

RoundConstants ==
    << <<17034, 12184>>, <<28983, 17553>>, <<46528, 64463>>, <<59829, 56229>>,
       <<14678, 49755>>, <<23025, 4593>>, <<37439, 33444>>, <<43804, 24277>>,
       <<55303, 43672>>, <<4739, 23297>>, <<9265, 34238>>, <<21772, 32195>>,
       <<29374, 23924>>, <<32990, 45566>>, <<39900, 1703>>, <<49563, 61812>>,
       <<58523, 27073>>, <<61374, 18310>>, <<4033, 40390>>, <<9228, 41420>>,
       <<11753, 11375>>, <<19060, 33962>>, <<23728, 43484>>, <<30457, 35034>>,
       <<38974, 20818>>, <<43057, 50797>>, <<45059, 10184>>, <<48985, 32711>>,
       <<50912, 3059>>, <<54695, 37191>>, <<1738, 25425>>, <<5161, 10599>>,
       <<10167, 2693>>, <<11803, 8504>>, <<19756, 28156>>, <<21304, 3347>>,
       <<25866, 29524>>, <<30314, 2747>>, <<33218, 51502>>, <<37490, 11397>>,
       <<41663, 59553>>, <<43034, 26187>>, <<49739, 35696>>, <<51052, 20899>>,
       <<53650, 59417>>, <<54937, 1572>>, <<62478, 13701>>, <<4202, 41072>>,
       <<6564, 49430>>, <<7735, 27656>>, <<10056, 30540>>, <<13488, 48309>>,
       <<14620, 3251>>, <<20184, 43594>>, <<23452, 51791>>, <<26670, 28659>>,
       <<29839, 33518>>, <<30885, 25455>>, <<33992, 30740>>, <<36039, 520>>,
       <<37054, 65530>>, <<42064, 27883>>, <<48889, 41975>>, <<50801, 30962>> >>

InitialHash ==
    << <<27145, 58983>>, <<47975, 44677>>, <<15470, 62322>>, <<42319, 62778>>,
       <<20750, 21119>>, <<39685, 26764>>, <<8067, 55723>>, <<23520, 52505>> >>

\* str.encode(): the code of each character the model's strings use
Ord == [c \in {"a", "b", ":"} |-> CASE c = "a" -> 97 [] c = "b" -> 98 [] c = ":" -> 58]

\* the j-th byte (from 0) of the padded block of a message of n bytes
BlockByte(key, j) ==
    CASE j < Len(key)  -> Ord[key[j + 1]]
      [] j = Len(key)  -> 128
      [] j = 62        -> (8 * Len(key)) \div 256
      [] j = 63        -> (8 * Len(key)) % 256
      [] OTHER         -> 0

\* the 16 words of the block
Block(key) ==
    [t \in 1..16 |->
        << BlockByte(key, 4 * t - 4) * 256 + BlockByte(key, 4 * t - 3),
           BlockByte(key, 4 * t - 2) * 256 + BlockByte(key, 4 * t - 1) >>]

\* the message schedule: w[t + 1] is W_t
RECURSIVE Schedule(_)
Schedule(w) ==
    IF Len(w) = 64 THEN w
    ELSE LET t == Len(w) + 1
             s0 == Xor(Xor(RotR(w[t - 15], 7), RotR(w[t - 15], 18)), ShR(w[t - 15], 3))
             s1 == Xor(Xor(RotR(w[t - 2], 17), RotR(w[t - 2], 19)), ShR(w[t - 2], 10))
         IN  Schedule(Append(w, Add(Add(w[t - 16], s0), Add(w[t - 7], s1))))

\* one compression round on the working variables v = <<a, ..., h>>
Round(v, w, t) ==
    LET a == v[1]  b == v[2]  c == v[3]  d == v[4]
        e == v[5]  f == v[6]  g == v[7]  h == v[8]
        S1 == Xor(Xor(RotR(e, 6), RotR(e, 11)), RotR(e, 25))
        ch == Xor(And(e, f), And(Not(e), g))
        t1 == Add(Add(Add(h, S1), Add(ch, RoundConstants[t])), w[t])
        S0 == Xor(Xor(RotR(a, 2), RotR(a, 13)), RotR(a, 22))
        maj == Xor(Xor(And(a, b), And(a, c)), And(b, c))
        t2 == Add(S0, maj)
    IN  <<Add(t1, t2), a, b, c, Add(d, t1), e, f, g>>

\* the working variables before each round and after the last: vs[t + 1] is
\* their value after t rounds
RECURSIVE Rounds(_, _)
Rounds(vs, w) ==
    IF Len(vs) = 65 THEN vs
    ELSE Rounds(Append(vs, Round(vs[Len(vs)], w, Len(vs))), w)

HexDigits == << "0", "1", "2", "3", "4", "5", "6", "7",
                "8", "9", "a", "b", "c", "d", "e", "f" >>

\* hashlib.sha256(key.encode()).hexdigest(): 64 characters
sha256_hexdigest(key) ==
    LET v == Rounds(<<InitialHash>>, Schedule(Block(key)))[65]
        digest == [i \in 1..8 |-> Add(InitialHash[i], v[i])]
    IN  [n \in 1..64 |->
            LET word == digest[(n - 1) \div 8 + 1]
                low == 28 - 4 * ((n - 1) % 8)
            IN  HexDigits[((word[IF low < 16 THEN 2 ELSE 1] \div 2^(low % 16)) % 16) + 1]]

\* ":".join(parts)
RECURSIVE Join(_)
Join(parts) ==
    IF parts = <<>> THEN <<>>
    ELSE IF Len(parts) = 1 THEN parts[1]
    ELSE parts[1] \o <<":">> \o Join(Tail(parts))

\* make_uid cutting the digest one character short
MakeUidShortDigest(prefix, parts) ==
    prefix \o <<"-">> \o SubSeq(sha256_hexdigest(Join(parts)), 1, 7)

make_uid(prefix, parts) == prefix \o <<"-">> \o SubSeq(sha256_hexdigest(Join(parts)), 1, 8)

(***************************************************************************)
(* The identity specification: one call of make_uid.  The function reads   *)
(* nothing but its arguments, so the state of the store plays no part.     *)
(***************************************************************************)
\* the kinds the services pass: "req", "arch", "cls" and "fn"
UidKinds == { <<"r", "e", "q">>, <<"a", "r", "c", "h">>, <<"c", "l", "s">>, <<"f", "n">> }

\* the strings passed as parts: empty, plain, and holding the separator
PartStrings == { <<>>, <<"a">>, <<"b">>, <<":">>, <<"a", ":", "b">> }

PartTuples == UNION { [1..k -> PartStrings] : k \in 0..MaxParts }

MakeUid ==
    /\ ret = NoCall
    /\ \E prefix \in UidKinds : \E parts \in PartTuples :
          ret' = [op |-> "make_uid", args |-> [prefix |-> prefix, parts |-> parts],
                  raises |-> "none", value |-> make_uid(prefix, parts)]
    /\ lookups' = <<>>
    /\ UNCHANGED <<contexts, uid_index>>

NextUid == MakeUid

SpecUid == Init /\ [][NextUid]_vars

(***************************************************************************)
(* The export specification.  dump_to_json writes each stored layer to     *)
(* <layer>.json in the output directory through <layer>.tmp.  A directory  *)
(* is a function from paths to the JSON text of the file; the call reads   *)
(* the tables only, so each behaviour makes one call on the constructed    *)
(* store.                                                                  *)
(***************************************************************************)
\* out / f"{context_id}.json" and path.with_suffix(".tmp")
JsonPath(context_id) == [stem |-> context_id, suffix |-> ".json"]
TmpPath(context_id) == [stem |-> context_id, suffix |-> ".tmp"]

\* the loop of dump_to_json from the i-th listed layer on
RECURSIVE DumpFrom(_, _, _, _)
DumpFrom(ctxs, dir, i, written) ==
    IF i > Len(SortedContextIds) THEN [written |-> written, dir |-> dir]
    ELSE IF ~context_exists(ctxs, SortedContextIds[i]) THEN DumpFrom(ctxs, dir, i + 1, written)
    ELSE LET context_id == SortedContextIds[i]
             text == json_dumps(read_value(ctxs, context_id))
             opened == Upsert(dir, TmpPath(context_id), text)
             replaced == Upsert(DeleteKey(opened, TmpPath(context_id)),
                                JsonPath(context_id), text)
         IN  DumpFrom(ctxs, replaced, i + 1, Append(written, JsonPath(context_id)))

\* dump_to_json leaving the file under its temporary name
DumpLeavesTmp(ctxs, dir) ==
    LET out == DumpFrom(ctxs, dir, 1, <<>>)
    IN  [out EXCEPT !.dir = [p \in {TmpPath(q.stem) : q \in DOMAIN out.dir} |->
                                  out.dir[[stem |-> p.stem, suffix |-> ".json"]]]]

dump_to_json(ctxs, dir) == DumpFrom(ctxs, dir, 1, <<>>)

\* the output directory before the call: empty, or holding files of an
\* earlier export and a temporary file an interrupted export left
OutputDirs ==
    { EmptyTable,
      (JsonPath("requirements") :> json_dumps(EmptyDict)),
      (JsonPath("ideas") :> json_dumps(EmptyDict))
          @@ (TmpPath("requirements") :> json_dumps(EmptyDict)) }

DumpToJson ==
    /\ ret.op = "__init__"
    /\ ret.raises = "none"
    /\ \E dir \in OutputDirs :
          LET out == dump_to_json(contexts, dir)
          IN  ret' = [op |-> "dump_to_json", args |-> [dir |-> dir],
                      raises |-> "none", value |-> out]
    /\ lookups' = <<>>
    /\ UNCHANGED <<contexts, uid_index>>

NextDump ==
    \/ Construct
    \/ DumpToJson

SpecDump == InitStartup /\ [][NextDump]_vars

(***************************************************************************)
(* The extraction specification: one write of a document of a layer's      *)
(* shape, with items that carry a uid, an empty uid or none, to a fresh    *)
(* database.  The uids of a document are all different.                    *)
(***************************************************************************)
ShapedContextIds == {"requirements", "architecture", "implementation", "ideas", "overview"}

\* the uids of the items of the i-th file
ClassUids == << "cls-1", "cls-2", "cls-3" >>
NestedClassUids == << "cls-4", "cls-5", "cls-6" >>
MethodUids == << "mtd-1", "mtd-2", "mtd-3" >>
FunctionUids == << "fn-1", "fn-2", "fn-3" >>

\* an item with a uid, one without, and one whose uid is empty
Entity(uid) == PyDict([uid |-> PyStr(uid), name |-> PyStr("n")])
Unnamed == PyDict([name |-> PyStr("n")])
Blank == PyDict([uid |-> PyStr(""), name |-> PyStr("n")])

MethodLists(i) ==
    { <<>>, <<Entity(MethodUids[i])>>, <<Unnamed, Entity(MethodUids[i])>> }

\* a class with its methods; the class itself may lack a uid
ClassesWithMethods(i) ==
    { dict_update(c, PyDict([methods |-> PyList(ms)])) :
        c \in {Entity(ClassUids[i]), Unnamed}, ms \in MethodLists(i) }

ClassLists(i) ==
    {<<>>} \cup {<<c>> : c \in ClassesWithMethods(i)}
           \cup {<<c, Entity(NestedClassUids[i])>> : c \in ClassesWithMethods(i)}

FunctionLists(i) ==
    { <<>>, <<Entity(FunctionUids[i])>>, <<Blank, Entity(FunctionUids[i])>> }

FilesAt(i) ==
    { PyDict([path |-> PyStr("f.py"), classes |-> PyList(cs), functions |-> PyList(fs)]) :
        cs \in ClassLists(i), fs \in FunctionLists(i) }
    \cup { PyDict([path |-> PyStr("f.py")]) }

\* the lists of at most k files, the i-th drawn from FilesAt(i)
RECURSIVE FileListsUpTo(_)
FileListsUpTo(k) ==
    IF k = 0 THEN {<<>>}
    ELSE LET shorter == FileListsUpTo(k - 1)
         IN  shorter \cup { Append(l, f) : l \in {x \in shorter : Len(x) = k - 1},
                                             f \in FilesAt(k) }

ImplementationShaped ==
    { PyDict([files |-> PyList(fl)]) : fl \in FileListsUpTo(MaxFiles) } \cup {EmptyDict}

RequirementsShaped ==
    { PyDict([requirements |-> PyList(l)]) :
        l \in { <<>>, <<Entity("req-1")>>,
                <<Unnamed, Entity("req-1"), Blank, Entity("req-2")>> } }

ArchitectureShaped ==
    { PyDict([architecture |-> PyDict([components |-> PyList(l)])]) :
        l \in { <<>>, <<Entity("arch-1")>>,
                <<Blank, Entity("arch-1"), Unnamed, Entity("arch-2")>> } }
    \cup { PyDict([architecture |-> PyDict([style |-> PyStr("layered")])]) }

\* a document of the layer's own shape, or one of another layer's shape
ShapedDocsFor(context_id) ==
    CASE context_id = "implementation" ->
            ImplementationShaped \cup RequirementsShaped \cup ArchitectureShaped
      [] OTHER ->
            RequirementsShaped \cup ArchitectureShaped
            \cup { PyDict([files |-> PyList(fl)]) : fl \in FileListsUpTo(1) }

UpdateShaped ==
    /\ ret = NoCall
    /\ \E context_id \in ShapedContextIds : \E data \in ShapedDocsFor(context_id) :
          LET out == update_context(contexts, uid_index, context_id, data, FALSE)
          IN  /\ contexts' = out.contexts
              /\ uid_index' = out.uid_index
              /\ ret' = Call("update_context",
                             [context_id |-> context_id, data |-> data, merge |-> FALSE], out)
              /\ lookups' = <<>>

NextExtract == UpdateShaped

SpecExtract == Init /\ [][NextExtract]_vars

(***************************************************************************)
(* The depth specification.  The store is constructed over a database that *)
(* holds five items, "fn-e" besides the four of the traversal              *)
(* specifications, so that an item can be met both on a path of one hop    *)
(* and on a path of three.                                                 *)
(***************************************************************************)
\* the related_to lists of "req-a", "req-b", "arch-c", "fn-d" and "fn-e"
DeepGraphs ==
    { <<a, b, c, d, e>> :
        a \in {<<"req-b", "fn-d">>, <<"fn-d", "req-b">>, <<"req-b">>, <<"fn-d">>},
        b \in {<<>>, <<"arch-c">>},
        c \in {<<>>, <<"fn-d">>},
        d \in {<<>>, <<"fn-e">>},
        e \in {<<>>, <<"req-a">>} }

DeepContexts(g) ==
    [context_id \in {"requirements", "architecture", "implementation"} |->
        CASE context_id = "requirements" -> json_dumps(RequirementsOf(g))
          [] context_id = "architecture" -> json_dumps(ArchitectureOf(g))
          [] OTHER ->
                json_dumps(PyDict([files |->
                    PyList(<<PyDict([path |-> PyStr("a.py"),
                                     classes |-> EmptyList,
                                     functions |-> PyList(<<GraphItem("fn-d", g[4]),
                                                            GraphItem("fn-e", g[5])>>)])>>)]))]

InitDepth ==
    \E g \in DeepGraphs :
        /\ contexts = DeepContexts(g)
        /\ uid_index = _rebuild_uid_index(DeepContexts(g), EmptyTable).uid_index
        /\ ret = NoCall
        /\ lookups = <<>>

SpecDepth == InitDepth /\ [][NextGather]_vars

(***************************************************************************)
(* The services.  Each service reads a layer through the store, changes    *)
(* the Python value and writes the layer back with merge=False.  A str is  *)
(* held as a TLA+ string here, so make_uid is given by the values it       *)
(* returns for the titles, names and paths the services are handed.        *)
(***************************************************************************)
\* make_uid(prefix, *parts) as a str
make_uid_str(prefix, parts) ==
    CASE prefix = "req"  /\ parts = <<"t1">>            -> "req-628b49d9"
      [] prefix = "req"  /\ parts = <<"t2">>            -> "req-c4447403"
      [] prefix = "arch" /\ parts = <<"c1">>            -> "arch-d0f631ca"
      [] prefix = "arch" /\ parts = <<"c2">>            -> "arch-9c0abe51"
      [] prefix = "cls"  /\ parts = <<"f.py", "K">>      -> "cls-df439ea3"
      [] prefix = "mtd"  /\ parts = <<"f.py", "K", "m">> -> "mtd-7c2363b6"
      [] prefix = "fn"   /\ parts = <<"f.py", "g">>      -> "fn-a906532c"

\* d[k] = v, d.setdefault(k, v) and d.pop(k) on a dict d
DictSet(d, k, v) == PyDict(Upsert(d.map, k, v))
SetDefault(d, k, v) == IF k \in DOMAIN d.map THEN d ELSE DictSet(d, k, v)
DictPop(d, k) == PyDict(DeleteKey(d.map, k))

\* the strs of a list of strs, in order, and set(l)
StrsOf(l) == [i \in 1..Len(l.items) |-> l.items[i].val]
SetOf(l) == {l.items[i].val : i \in 1..Len(l.items)}

\* the orders in which a set of strs can be iterated
Orders(S) == {s \in [1..Cardinality(S) -> S] : {s[i] : i \in 1..Cardinality(S)} = S}

\* list(s) of a set s of strs: the iteration order of a set follows the hashes
\* of its members, which differ from process to process; `order` is the order
\* this process iterates them in
ListOfSet(S, order) == PyList(SelectSeq([i \in 1..Len(order) |-> PyStr(order[i])],
                                        LAMBDA u : u.val \in S))

\* the least and the greatest member of a non-empty set of numbers
Least(S) == CHOOSE i \in S : \A j \in S : i <= j
Greatest(S) == CHOOSE i \in S : \A j \in S : j <= i

\* the index of the first element of a list that satisfies Test, or 0
FirstIndex(s, Test(_)) ==
    LET hits == {i \in 1..Len(s) : Test(s[i])}
    IN  IF hits = {} THEN 0 ELSE Least(hits)

\* [F(x) for x in l] and the concatenation of a list of lists
MapList(l, F(_)) == PyList([i \in 1..Len(l.items) |-> F(l.items[i])])

RECURSIVE Flatten(_)
Flatten(ss) == IF ss = <<>> THEN <<>> ELSE Head(ss) \o Flatten(Tail(ss))

\* a service call after its save: the exception of the save, or the tables
\* the save left and the value the call returns
Returning(saved, value) ==
    IF saved.raises # "none" THEN saved
    ELSE Outcome(saved.contexts, saved.uid_index, "none", value)

(***************************************************************************)
(* RequirementManagementService.                                           *)
(***************************************************************************)
\* RequirementManagementService._load
req_load(ctxs) ==
    IF ~context_exists(ctxs, "requirements") THEN <<>>
    ELSE DictGet(read_value(ctxs, "requirements"), "requirements", EmptyList).items

\* RequirementManagementService._save
req_save(ctxs, idx, reqs) ==
    update_context(ctxs, idx, "requirements", PyDict([requirements |-> PyList(reqs)]), FALSE)

\* the four setdefault calls of create_requirement
Defaulted(requirement) ==
    SetDefault(SetDefault(SetDefault(SetDefault(requirement,
        "tags", EmptyList), "status", PyStr("new")), "related_to", EmptyList),
        "uid", PyStr(make_uid_str("req", <<DictGet(requirement, "title", PyStr("")).val>>)))

create_requirement(ctxs, idx, requirement) ==
    Returning(req_save(ctxs, idx, Append(req_load(ctxs), Defaulted(requirement))),
              PyDict([uid |-> Defaulted(requirement).map["uid"],
                      title |-> requirement.map["title"],
                      status |-> PyStr("created")]))

\* the related_to merge of update_requirement: set, update, list
MergeRelated(req, updates, order) ==
    IF "related_to" \in DOMAIN updates.map
    THEN DictSet(req, "related_to",
                 ListOfSet(SetOf(DictGet(req, "related_to", EmptyList))
                               \cup SetOf(updates.map["related_to"]), order))
    ELSE req

\* the requirement update_requirement stores in place of req
Updated(req, updates, order) ==
    dict_update(MergeRelated(req, updates, order),
                IF "related_to" \in DOMAIN updates.map
                THEN DictPop(updates, "related_to") ELSE updates)

update_requirement(ctxs, idx, title, updates, order) ==
    LET reqs == req_load(ctxs)
        i == FirstIndex(reqs, LAMBDA r : r.map["title"] = PyStr(title))
    IN  IF i = 0 THEN Outcome(ctxs, idx, "KeyError", PyNone)
        ELSE Returning(req_save(ctxs, idx,
                                [reqs EXCEPT ![i] = Updated(reqs[i], updates, order)]),
                       PyDict([uid |-> DictGet(Updated(reqs[i], updates, order),
                                               "uid", PyStr("")),
                               title |-> PyStr(title),
                               status |-> PyStr("updated")]))

delete_requirement(ctxs, idx, title) ==
    LET reqs == req_load(ctxs)
        new_reqs == SelectSeq(reqs, LAMBDA r : r.map["title"] # PyStr(title))
    IN  IF Len(new_reqs) = Len(reqs) THEN Outcome(ctxs, idx, "KeyError", PyNone)
        ELSE Returning(req_save(ctxs, idx, new_reqs),
                       PyDict([title |-> PyStr(title), status |-> PyStr("deleted")]))

\* `try: update_requirement(...) except KeyError: create_requirement(req)`
OrCreate(updated, ctxs, idx, req) ==
    IF updated.raises = "KeyError" THEN create_requirement(ctxs, idx, req) ELSE updated

\* `try: delete_requirement(...) except KeyError: pass`
OrPass(deleted, ctxs, idx) ==
    IF deleted.raises = "KeyError" THEN Outcome(ctxs, idx, "none", PyNone) ELSE deleted

\* one turn of the loop of apply_changes
ApplyOne(ctxs, idx, change, order) ==
    LET action == DictGet(change, "action", PyNone)
        req == DictGet(change, "requirement", EmptyDict)
    IN  CASE action = PyStr("create") -> create_requirement(ctxs, idx, req)
          [] action = PyStr("update") ->
                OrCreate(update_requirement(ctxs, idx, req.map["title"].val, req, order),
                         ctxs, idx, req)
          [] action = PyStr("delete") ->
                OrPass(delete_requirement(ctxs, idx, req.map["title"].val), ctxs, idx)
          [] OTHER -> Outcome(ctxs, idx, "none", PyNone)

\* apply_changes from its i-th change on, `done` being what the turns before
\* it left; an exception ends the loop; the call returns None
RECURSIVE ApplyFrom(_, _, _, _)
ApplyFrom(done, changes, i, order) ==
    IF done.raises # "none" THEN done
    ELSE IF i > Len(changes) THEN Outcome(done.contexts, done.uid_index, "none", PyNone)
    ELSE ApplyFrom(ApplyOne(done.contexts, done.uid_index, changes[i], order),
                   changes, i + 1, order)

apply_changes(ctxs, idx, changes, order) ==
    ApplyFrom(Outcome(ctxs, idx, "none", PyNone), changes.items, 1, order)

(***************************************************************************)
(* ArchitectureDesignService.                                              *)
(***************************************************************************)
NoArchitecture == PyDict([components |-> EmptyList, behaviors |-> EmptyList])

\* ArchitectureDesignService._load
arch_load(ctxs) ==
    IF ~context_exists(ctxs, "architecture") THEN NoArchitecture
    ELSE DictGet(read_value(ctxs, "architecture"), "architecture", NoArchitecture)

\* ArchitectureDesignService._save
arch_save(ctxs, idx, arch) ==
    update_context(ctxs, idx, "architecture", PyDict([architecture |-> arch]), FALSE)

\* one turn of the `for change in changes` loop of update_architecture: the
\* components and the affected names it leaves
ApplyChange(components, affected, change, order) ==
    LET action == DictGet(change, "action", PyNone)
        given == DictGet(change, "component", EmptyDict)
        name == DictGet(given, "component", PyStr(""))
        comp == SetDefault(SetDefault(given,
                    "uid", PyStr(make_uid_str("arch", <<name.val>>))),
                    "related_to", EmptyList)
        i == FirstIndex(components, LAMBDA c : c.map["component"] = name)
        merged == DictSet(comp, "related_to",
                      ListOfSet(SetOf(DictGet(components[i], "related_to", EmptyList))
                                    \cup SetOf(comp.map["related_to"]), order))
        kept == SelectSeq(components, LAMBDA c : c.map["component"] # name)
    IN  CASE action = PyStr("create") ->
                IF i = 0
                THEN [components |-> Append(components, comp),
                      affected |-> Append(affected, name)]
                ELSE [components |-> components, affected |-> affected]
          [] action = PyStr("update") ->
                IF i # 0
                THEN [components |-> [components EXCEPT ![i] = merged],
                      affected |-> Append(affected, name)]
                ELSE [components |-> Append(components, comp),
                      affected |-> Append(affected, name)]
          [] action = PyStr("delete") ->
                [components |-> kept,
                 affected |-> IF Len(kept) < Len(components)
                              THEN Append(affected, name) ELSE affected]
          [] OTHER -> [components |-> components, affected |-> affected]

RECURSIVE ArchChangesFrom(_, _, _, _, _)
ArchChangesFrom(components, affected, changes, i, order) ==
    IF i > Len(changes) THEN [components |-> components, affected |-> affected]
    ELSE LET step == ApplyChange(components, affected, changes[i], order)
         IN  ArchChangesFrom(step.components, step.affected, changes, i + 1, order)

\* update_architecture once the loop has left `done`
Stored(ctxs, idx, loaded, done) ==
    Returning(arch_save(ctxs, idx, DictSet(loaded, "components", PyList(done.components))),
              PyDict([status |-> PyStr("updated"),
                      affected_components |-> PyList(done.affected),
                      architecture |-> DictSet(loaded, "components",
                                               PyList(done.components))]))

update_architecture(ctxs, idx, changes, order) ==
    Stored(ctxs, idx, arch_load(ctxs),
           ArchChangesFrom(DictGet(arch_load(ctxs), "components", EmptyList).items, <<>>,
                           changes.items, 1, order))

(***************************************************************************)
(* ImplementationDesignService.                                            *)
(***************************************************************************)
\* ImplementationDesignService._load
impl_load(ctxs) ==
    IF ~context_exists(ctxs, "implementation") THEN <<>>
    ELSE DictGet(read_value(ctxs, "implementation"), "files", EmptyList).items

\* ImplementationDesignService._save and ProjectInitializer._save_context
_save_context(ctxs, idx, context_id, data) ==
    IF context_exists(ctxs, context_id)
    THEN update_context(ctxs, idx, context_id, data, FALSE)
    ELSE create_context(ctxs, idx, context_id, data)

\* the classes, methods and functions of a file entry, each replaced by
\* Class(path, cls), Method(path, cls_name, mtd) and Function(path, fn)
MapFile(file_entry, Class(_, _), Method(_, _, _), Function(_, _)) ==
    LET path == DictGet(file_entry, "file", PyStr("")).val
        OneClass(cls) ==
            LET cls_name == DictGet(cls, "name", PyStr("")).val
                own == Class(path, cls)
            IN  IF "methods" \in DOMAIN own.map
                THEN DictSet(own, "methods",
                             MapList(own.map["methods"],
                                     LAMBDA mtd : Method(path, cls_name, mtd)))
                ELSE own
        classes == IF "classes" \in DOMAIN file_entry.map
                   THEN DictSet(file_entry, "classes",
                                MapList(file_entry.map["classes"], OneClass))
                   ELSE file_entry
    IN  IF "functions" \in DOMAIN classes.map
        THEN DictSet(classes, "functions",
                     MapList(classes.map["functions"], LAMBDA fn : Function(path, fn)))
        ELSE classes

\* item["uid"] = uid; item["related_to"] = [arch_uid] if arch_uid else [];
\* item.setdefault("status", "new")
Linked(item, uid, arch_uid) ==
    SetDefault(DictSet(DictSet(item, "uid", PyStr(uid)),
                       "related_to",
                       IF arch_uid # "" THEN PyList(<<PyStr(arch_uid)>>) ELSE EmptyList),
               "status", PyStr("new"))

NameOf(item) == DictGet(item, "name", PyStr("")).val

_assign_uids(file_entry, arch_uid) ==
    MapFile(file_entry,
            LAMBDA path, cls : Linked(cls, make_uid_str("cls", <<path, NameOf(cls)>>), arch_uid),
            LAMBDA path, cls_name, mtd :
                Linked(mtd, make_uid_str("mtd", <<path, cls_name, NameOf(mtd)>>), arch_uid),
            LAMBDA path, fn : Linked(fn, make_uid_str("fn", <<path, NameOf(fn)>>), arch_uid))

\* _merge_file_specs: a dict keyed by file path keeps the place of the first
\* entry of a path and the value of the last
_merge_file_specs(current, new_specs) ==
    LET all == current \o new_specs
        SamePath(i, j) == all[i].map["file"] = all[j].map["file"]
        firsts == SelectSeq([i \in 1..Len(all) |-> i],
                            LAMBDA i : \A j \in 1..(i - 1) : ~SamePath(i, j))
    IN  [k \in 1..Len(firsts) |->
            all[Greatest({j \in 1..Len(all) : SamePath(firsts[k], j)})]]

\* design_functions_for_component; `result` is what the model answered
design_functions_for_component(ctxs, idx, component, result) ==
    LET arch_uid == DictGet(component, "uid", PyStr("")).val
        file_specs == MapList(DictGet(result, "files", EmptyList),
                              LAMBDA spec : _assign_uids(spec, arch_uid))
    IN  Returning(_save_context(ctxs, idx, "implementation",
                      PyDict([files |-> PyList(_merge_file_specs(impl_load(ctxs),
                                                                 file_specs.items))])),
                  PyDict([component |-> DictGet(component, "component", PyNone),
                          files |-> file_specs]))

(***************************************************************************)
(* ProjectInitializer.                                                     *)
(***************************************************************************)
_assign_impl_uids(file_entry) ==
    MapFile(file_entry,
            LAMBDA path, cls : DictSet(cls, "uid", PyStr(make_uid_str("cls", <<path, NameOf(cls)>>))),
            LAMBDA path, cls_name, mtd :
                DictSet(mtd, "uid", PyStr(make_uid_str("mtd", <<path, cls_name, NameOf(mtd)>>))),
            LAMBDA path, fn : DictSet(fn, "uid", PyStr(make_uid_str("fn", <<path, NameOf(fn)>>))))

UidOf(item) == DictGet(item, "uid", PyStr("")).val

\* the assignments _assign_arch_uids makes to impl_lookup, in order; a method
\* name alone is written with setdefault
LookupWrites(implementation) ==
    LET OfMethod(cls, mtd) ==
            << [key |-> NameOf(cls) \o "." \o NameOf(mtd), uid |-> UidOf(mtd), set |-> TRUE],
               [key |-> NameOf(mtd), uid |-> UidOf(mtd), set |-> FALSE] >>
        OfClass(cls) ==
            << [key |-> NameOf(cls), uid |-> UidOf(cls), set |-> TRUE] >>
            \o Flatten([i \in 1..Len(DictGet(cls, "methods", EmptyList).items) |->
                           OfMethod(cls, cls.map["methods"].items[i])])
        OfFunction(fn) == << [key |-> NameOf(fn), uid |-> UidOf(fn), set |-> TRUE] >>
        OfFile(f) ==
            Flatten([i \in 1..Len(DictGet(f, "classes", EmptyList).items) |->
                        OfClass(f.map["classes"].items[i])])
            \o Flatten([i \in 1..Len(DictGet(f, "functions", EmptyList).items) |->
                           OfFunction(f.map["functions"].items[i])])
    IN  Flatten([i \in 1..Len(implementation) |-> OfFile(implementation[i])])

RECURSIVE Written(_, _, _)
Written(writes, i, lookup) ==
    IF i > Len(writes) THEN lookup
    ELSE Written(writes, i + 1,
                 IF writes[i].set \/ writes[i].key \notin DOMAIN lookup
                 THEN Upsert(lookup, writes[i].key, writes[i].uid) ELSE lookup)

\* resolved = [lookup[ref] if ref in lookup else ref for ref in related_to]
Resolved(item, lookup) ==
    MapList(DictGet(item, "related_to", EmptyList),
            LAMBDA ref : IF ref.val \in DOMAIN lookup THEN PyStr(lookup[ref.val]) ELSE ref)

_assign_arch_uids(architecture, implementation) ==
    LET impl_lookup == Written(LookupWrites(implementation), 1, EmptyTable)
    IN  DictSet(architecture, "components",
            MapList(DictGet(architecture, "components", EmptyList),
                LAMBDA comp :
                    DictSet(DictSet(comp, "uid",
                                PyStr(make_uid_str("arch",
                                          <<DictGet(comp, "component", PyStr("")).val>>))),
                            "related_to", Resolved(comp, impl_lookup))))

_assign_req_uids(requirements, architecture) ==
    LET comps == DictGet(architecture, "components", EmptyList).items
        arch_lookup == Written([i \in 1..Len(comps) |->
                                   [key |-> DictGet(comps[i], "component", PyStr("")).val,
                                    uid |-> UidOf(comps[i]), set |-> TRUE]],
                               1, EmptyTable)
    IN  MapList(requirements,
            LAMBDA req :
                DictSet(DictSet(req, "uid",
                            PyStr(make_uid_str("req", <<DictGet(req, "title", PyStr("")).val>>))),
                        "related_to", Resolved(req, arch_lookup)))

\* reverse.get(uid, []): the uid of an owner once for every time the owner's
\* related_to names uid, owners in document order
Reverse(owners, uid) ==
    Flatten([i \in 1..Len(owners) |->
                SelectSeq([k \in 1..Len(DictGet(owners[i], "related_to", EmptyList).items) |->
                              IF owners[i].map["related_to"].items[k] = PyStr(uid)
                              THEN PyStr(UidOf(owners[i])) ELSE PyNone],
                          LAMBDA v : v # PyNone)])

_backfill_impl_related_to(implementation, architecture) ==
    LET comps == DictGet(architecture, "components", EmptyList).items
        Filled(item) == DictSet(item, "related_to", PyList(Reverse(comps, UidOf(item))))
    IN  [i \in 1..Len(implementation) |->
            MapFile(implementation[i],
                    LAMBDA path, cls : Filled(cls),
                    LAMBDA path, cls_name, mtd : Filled(mtd),
                    LAMBDA path, fn : Filled(fn))]

\* `for uid in extra: if uid not in seen: existing.append(uid); seen.add(uid)`
RECURSIVE AppendUnseen(_, _, _)
AppendUnseen(existing, extra, i) ==
    IF i > Len(extra) THEN existing
    ELSE AppendUnseen(IF \E k \in 1..Len(existing) : existing[k] = extra[i]
                      THEN existing ELSE Append(existing, extra[i]),
                      extra, i + 1)

_backfill_arch_related_to(architecture, requirements) ==
    DictSet(architecture, "components",
        MapList(DictGet(architecture, "components", EmptyList),
            LAMBDA comp :
                DictSet(comp, "related_to",
                        PyList(AppendUnseen(DictGet(comp, "related_to", EmptyList).items,
                                            Reverse(requirements.items, UidOf(comp)), 1)))))

\* the next _save_context of initialize, unless an earlier one raised
ThenSave(saved, context_id, data) ==
    IF saved.raises # "none" THEN saved
    ELSE _save_context(saved.contexts, saved.uid_index, context_id, data)

\* the overview document of step 4
Overview(implementation, summary) ==
    PyDict([project_summary |-> DictGet(summary, "project_summary", PyStr("")),
            tech_stack |-> DictGet(summary, "tech_stack", EmptyList),
            key_files |-> PyDict([p \in {implementation[i].map["file"].val :
                                            i \in 1..Len(implementation)} |->
                DictGet(implementation[Greatest({i \in 1..Len(implementation) :
                                                    implementation[i].map["file"].val = p})],
                        "purpose", PyStr(""))])])

\* the value initialize returns
Initialized(saved) ==
    Returning(saved, PyDict([status |-> PyStr("initialized"),
                             contexts |-> list_contexts(saved.contexts)]))

\* initialize: `analyses` holds, for each source file read, its path and what
\* the model answered about it; the other three arguments are the model's
\* answers of steps 2, 3 and 4
initialize(ctxs, idx, analyses, inferred, required, summary) ==
    LET analysed == [i \in 1..Len(analyses) |->
                        _assign_impl_uids(DictSet(analyses[i].result, "file",
                                                  PyStr(analyses[i].path)))]
        architecture == _assign_arch_uids(
                            PyDict([components |-> DictGet(inferred, "components", EmptyList),
                                    behaviors |-> DictGet(inferred, "behaviors", EmptyList)]),
                            analysed)
        implementation == _backfill_impl_related_to(analysed, architecture)
        requirements == _assign_req_uids(DictGet(required, "requirements", EmptyList),
                                         architecture)
        linked == _backfill_arch_related_to(architecture, requirements)
    IN  Initialized(
          ThenSave(
            ThenSave(
              ThenSave(
                ThenSave(
                  ThenSave(
                    _save_context(ctxs, idx, "implementation",
                                  PyDict([files |-> PyList(analysed)])),
                    "implementation", PyDict([files |-> PyList(implementation)])),
                  "architecture", PyDict([architecture |-> architecture])),
                "architecture", PyDict([architecture |-> linked])),
              "requirements", PyDict([requirements |-> requirements])),
            "overview", Overview(implementation, summary)))

(***************************************************************************)
(* The requirements specification: an empty store, then any sequence of    *)
(* calls of the requirement service.                                       *)
(***************************************************************************)
Titles == {"t1", "t2"}
ComponentNames == {"c1", "c2"}

StrList(s) == PyList([i \in 1..Len(s) |-> PyStr(s[i])])

\* every uid a related_to of the stored layer S holds
RelatedIn(items) == UNION {SetOf(DictGet(items[i], "related_to", EmptyList)) : i \in 1..Len(items)}

\* the related_to lists a caller supplies for a requirement
RequirementLinks ==
    LET c1 == make_uid_str("arch", <<"c1">>)
        c2 == make_uid_str("arch", <<"c2">>)
    IN  {StrList(<<>>), StrList(<<c1>>), StrList(<<c2, c1>>)}

GivenRequirements ==
    {PyDict([title |-> PyStr(t)]) : t \in Titles}
        \cup {PyDict([title |-> PyStr(t), related_to |-> l]) : t \in Titles, l \in RequirementLinks}

RequirementUpdates ==
    {PyDict([related_to |-> l]) : l \in RequirementLinks}
        \cup {PyDict([status |-> PyStr("reviewed")])}

RequirementChanges ==
    {PyDict([action |-> PyStr(a), requirement |-> r]) :
        a \in {"create", "update", "delete"},
        r \in {g \in GivenRequirements : "related_to" \in DOMAIN g.map => Len(g.map["related_to"].items) = 1}}

\* what a service call leaves: the tables and the outcome
Leaves(op, args, out) ==
    /\ contexts' = out.contexts
    /\ uid_index' = out.uid_index
    /\ ret' = Call(op, args, out)
    /\ lookups' = <<>>

CreateRequirement ==
    /\ Len(req_load(contexts)) < MaxRequirements
    /\ \E requirement \in GivenRequirements :
        Leaves("create_requirement", [requirement |-> requirement],
               create_requirement(contexts, uid_index, requirement))

UpdateRequirement ==
    \E title \in Titles : \E updates \in RequirementUpdates :
        \E order \in Orders(RelatedIn(req_load(contexts))
                                \cup SetOf(DictGet(updates, "related_to", EmptyList))) :
            Leaves("update_requirement", [title |-> title, updates |-> updates],
                   update_requirement(contexts, uid_index, title, updates, order))

DeleteRequirement ==
    \E title \in Titles :
        Leaves("delete_requirement", [title |-> title],
               delete_requirement(contexts, uid_index, title))

ApplyChanges ==
    /\ Len(req_load(contexts)) < MaxRequirements
    /\ \E change \in RequirementChanges :
        \E order \in Orders(RelatedIn(req_load(contexts))
                                \cup SetOf(DictGet(change.map["requirement"], "related_to", EmptyList))) :
            Leaves("apply_changes", [changes |-> PyList(<<change>>)],
                   apply_changes(contexts, uid_index, PyList(<<change>>), order))

NextRequirements ==
    CreateRequirement \/ UpdateRequirement \/ DeleteRequirement \/ ApplyChanges

SpecRequirements == Init /\ [][NextRequirements]_vars

(***************************************************************************)
(* The initializer specification: any sequence of runs of the pipeline,    *)
(* each over what the model answers for the one source file, for the       *)
(* architecture and for the requirements.                                  *)
(***************************************************************************)
Named(name) == PyDict([name |-> PyStr(name)])

\* what the model answers about the one source file "f.py": a class K with a
\* method m, and a function g
FileAnalysis ==
    PyDict([purpose |-> PyStr("p"),
            classes |-> PyList(<<DictSet(Named("K"), "methods", PyList(<<Named("m")>>))>>),
            functions |-> PyList(<<Named("g")>>)])

\* the names a component is said to relate to; "K.m" and "m" name one method
InferredLinks == {StrList(<<"K">>), StrList(<<"g">>), StrList(<<"K.m", "m">>)}

InferredComponent(name, links) == PyDict([component |-> PyStr(name), related_to |-> links])

\* what the model answers for the architecture: no component, c1, or c1 and c2
InferredArchitectures ==
    {PyDict([components |-> PyList(comps)]) :
        comps \in {<<>>}
            \cup {<<InferredComponent("c1", l)>> : l \in InferredLinks}
            \cup {<<InferredComponent("c1", l1), InferredComponent("c2", l2)>> :
                     l1 \in InferredLinks, l2 \in InferredLinks}}

RequiredLinks == {StrList(<<"c1">>), StrList(<<"c2">>), StrList(<<"c1", "c2">>)}

InferredRequirement(title, links) == PyDict([title |-> PyStr(title), related_to |-> links])

\* what the model answers for the requirements: none, t1, or t1 and t2
InferredRequirements ==
    {PyDict([requirements |-> PyList(reqs)]) :
        reqs \in {<<>>}
            \cup {<<InferredRequirement("t1", l)>> : l \in RequiredLinks}
            \cup {<<InferredRequirement("t1", l1), InferredRequirement("t2", l2)>> :
                     l1 \in RequiredLinks, l2 \in RequiredLinks}}

Summary == PyDict([project_summary |-> PyStr("s")])

InitializeWith(architectures, requirements) ==
    \E inferred \in architectures : \E required \in requirements :
        Leaves("initialize", [inferred |-> inferred, required |-> required],
               initialize(contexts, uid_index, <<[path |-> "f.py", result |-> FileAnalysis]>>,
                          inferred, required, Summary))

Initialize == InitializeWith(InferredArchitectures, InferredRequirements)

NextInitialize == Initialize

SpecInitialize == Init /\ [][NextInitialize]_vars

(***************************************************************************)
(* The services specification: an empty store, then any sequence of runs   *)
(* of the initializer and calls of the three services that store           *)
(* relationships.                                                          *)
(***************************************************************************)
\* a run of the pipeline that finds the component c1 made of the class K, and
\* no requirement or the requirement t1 of c1
Bootstrap ==
    InitializeWith({PyDict([components |-> PyList(<<InferredComponent("c1", StrList(<<"K">>))>>)])},
                   {PyDict([requirements |-> PyList(reqs)]) :
                       reqs \in {<<>>, <<InferredRequirement("t1", StrList(<<"c1">>))>>}})

\* the related_to a change gives its component
ChangeLinks == StrList(<<make_uid_str("req", <<"t1">>)>>)

ArchitectureChanges ==
    {PyDict([action |-> PyStr(a),
             component |-> PyDict([component |-> PyStr(n), related_to |-> l])]) :
        a \in {"create", "update", "delete"}, n \in ComponentNames, l \in {ChangeLinks}}

UpdateArchitecture ==
    \E change \in ArchitectureChanges :
        \E order \in Orders(RelatedIn(DictGet(arch_load(contexts), "components", EmptyList).items)
                                \cup SetOf(change.map["component"].map["related_to"])) :
            Leaves("update_architecture", [changes |-> PyList(<<change>>)],
                   update_architecture(contexts, uid_index, PyList(<<change>>), order))

\* what the model answers for a component: the file "f.py" with the function g
Design ==
    PyDict([files |-> PyList(<<PyDict([file |-> PyStr("f.py"),
                                       functions |-> PyList(<<Named("g")>>)])>>)])

\* the component designed is one of the stored architecture, as
\* notify_component_changes hands them on
DesignFunctionsForComponent ==
    \E i \in 1..Len(DictGet(arch_load(contexts), "components", EmptyList).items) :
        LET component == arch_load(contexts).map["components"].items[i]
        IN  Leaves("design_functions_for_component",
                   [component |-> component, result |-> Design],
                   design_functions_for_component(contexts, uid_index, component, Design))

NextServices ==
    Bootstrap \/ UpdateArchitecture \/ DesignFunctionsForComponent \/ UpdateRequirement

SpecServices == Init /\ [][NextServices]_vars

(***************************************************************************)
(* Properties of the traversal.                                            *)
(***************************************************************************)
Indexed == DOMAIN uid_index

IndexedItem(uid) == find_by_uid(uid_index, uid)

\* the uids an indexed item names in related_to
OutRefs(uid) == {RefsOf(IndexedItem(uid))[i] : i \in 1..Len(RefsOf(IndexedItem(uid)))}

\* the indexed uids at most d related_to hops from an indexed seed
RECURSIVE Within(_, _)
Within(seed, d) ==
    IF d = 0 THEN {seed}
    ELSE LET near == Within(seed, d - 1)
         IN  near \cup {v \in Indexed : \E u \in near : v \in OutRefs(u)}

IsGather == ret.op = "gather_related"
IsBatch == ret.op = "gather_related_batch"

Related == DOMAIN ret.value.related

NoRepeats(s) == \A i, j \in 1..Len(s) : s[i] = s[j] => i = j

\* C2: gather_related(uid, d).related is exactly the set of indexed items,
\* other than the seed, within d related_to hops of an indexed seed.
TraversalComplete ==
    (IsGather /\ ret.args.uid \in Indexed)
        => Related = Within(ret.args.uid, ret.args.depth) \ {ret.args.uid}

\* C4: on any graph, cyclic or not, gather_related ends having looked each
\* uid up at most once, the seed is not in related, and the 2-cycle
\* req-a -> [req-b], req-b -> [req-a] gives related = {req-b} at every depth > 0.
CycleSafe ==
    IsGather =>
        /\ NoRepeats(lookups)
        /\ Len(lookups) <= Cardinality(RefTargets)
        /\ ret.args.uid \notin Related
        /\ ( /\ ret.args.uid = "req-a"
             /\ ret.args.depth > 0
             /\ RefsOf(IndexedItem("req-a")) = <<"req-b">>
             /\ RefsOf(IndexedItem("req-b")) = <<"req-a">> )
           => Related = {"req-b"}

\* the 2-cycle traversed with the largest budget
CycleWitness ==
    /\ IsGather
    /\ ret.args.uid = "req-a"
    /\ ret.args.depth = MaxDepth
    /\ RefsOf(IndexedItem("req-a")) = <<"req-b">>
    /\ RefsOf(IndexedItem("req-b")) = <<"req-a">>
    /\ Related = {"req-b"}
    /\ lookups = <<"req-a", "req-b">>

\* C5: depth 0 gives the root and nothing related; depth 1 gives exactly the
\* indexed items the seed itself names (the seed excepted); at every depth d
\* no related item is farther than d hops from the seed.
DepthBound ==
    (IsGather /\ ret.args.uid \in Indexed) =>
        /\ ret.value.root = IndexedItem(ret.args.uid)
        /\ ret.args.depth = 0 => Related = {}
        /\ ret.args.depth = 1 =>
              Related = (OutRefs(ret.args.uid) \cap Indexed) \ {ret.args.uid}
        /\ Related \subseteq Within(ret.args.uid, ret.args.depth) \ {ret.args.uid}

\* the chain req-a -> req-b -> arch-c -> fn-d traversed with depth 2
ChainWitness ==
    /\ IsGather
    /\ ret.args.uid = "req-a"
    /\ ret.args.depth = 2
    /\ Indexed = RefTargets
    /\ RefsOf(IndexedItem("req-a")) = <<"req-b">>
    /\ RefsOf(IndexedItem("req-b")) = <<"arch-c">>
    /\ RefsOf(IndexedItem("arch-c")) = <<"fn-d">>
    /\ Related = {"req-b", "arch-c"}

\* item without the references no index entry answers
WithoutDangling(item) ==
    IF "related_to" \notin DOMAIN item.map THEN item
    ELSE PyDict([item.map EXCEPT !["related_to"] =
            PyList(SelectSeq(@.items, LAMBDA r : r.val \in Indexed))])

\* the index with the dangling references taken out of every item
StrippedIndex ==
    [u \in Indexed |->
        [uid_index[u] EXCEPT !.data = json_dumps(WithoutDangling(json_loads(@)))]]

\* C6: a dangling reference raises nothing, is absent from related, and the
\* other references are resolved and followed as if it were not there, in
\* gather_related and in gather_related_batch.
DanglingTolerated ==
    /\ IsGather =>
        /\ ret.raises = "none"
        /\ Related \subseteq Indexed
        /\ \A u \in Related : ret.value.related[u] = IndexedItem(u)
        /\ Related = DOMAIN gather_related(StrippedIndex, ret.args.uid,
                                           ret.args.depth).value.related
    /\ IsBatch =>
        /\ ret.raises = "none"
        /\ Related \subseteq Indexed
        /\ \A u \in Related : ret.value.related[u] = IndexedItem(u)
        /\ Related = DOMAIN gather_related_batch(StrippedIndex, ret.args.uids,
                                                 ret.args.depth).value.related

\* a dangling reference ahead of a resolvable one that has references itself
DanglingWitness ==
    /\ IsGather
    /\ ret.args.uid = "req-a"
    /\ ret.args.depth = 2
    /\ "fn-d" \notin Indexed
    /\ RefsOf(IndexedItem("req-a")) = <<"fn-d", "req-b">>
    /\ RefsOf(IndexedItem("req-b")) = <<"arch-c">>
    /\ Related = {"req-b", "arch-c"}

\* C7: for a uid without index entry, gather_related returns root None and
\* related {} without raising and leaves documents and index as they were;
\* find_by_uid of that uid is None.
UnknownSeed ==
    [][ (ret'.op = "gather_related" /\ ret'.args.uid \notin DOMAIN uid_index) =>
            /\ ret'.raises = "none"
            /\ ret'.value = [root |-> PyNone, related |-> EmptyTable]
            /\ find_by_uid(uid_index', ret'.args.uid) = PyNone
            /\ contexts' = contexts
            /\ uid_index' = uid_index ]_vars

\* an unknown seed that indexed items refer to, traversed with a budget
UnknownSeedWitness ==
    /\ IsGather
    /\ ret.args.uid = "fn-d"
    /\ "fn-d" \notin Indexed
    /\ ret.args.depth = MaxDepth
    /\ "fn-d" \in OutRefs("req-a")
    /\ ret.value.root = PyNone
    /\ Related = {}

\* the uids of a seed list
SeedsOf(uids) == {uids[i] : i \in 1..Len(uids)}

\* C8: gather_related_batch returns as items exactly the seeds with an index
\* entry, related shares no uid with items, and every entry of both is what
\* find_by_uid gives for its key.
BatchResult ==
    IsBatch =>
        /\ DOMAIN ret.value.items = SeedsOf(ret.args.uids) \cap Indexed
        /\ Related \cap DOMAIN ret.value.items = {}
        /\ \A u \in DOMAIN ret.value.items : ret.value.items[u] = IndexedItem(u)
        /\ \A u \in Related : ret.value.related[u] = IndexedItem(u)

\* two seeds, the second reachable from the first through a third item
BatchWitness ==
    /\ IsBatch
    /\ ret.args.uids = <<"req-a", "fn-d">>
    /\ ret.args.depth = 2
    /\ "fn-d" \in Indexed
    /\ RefsOf(IndexedItem("req-a")) = <<"req-b">>
    /\ RefsOf(IndexedItem("req-b")) = <<"fn-d">>
    /\ DOMAIN ret.value.items = {"req-a", "fn-d"}
    /\ Related = {"req-b"}

(***************************************************************************)
(* Properties of the document store and its index.                         *)
(***************************************************************************)
\* the (uid, item) pairs found by walking a stored layer document
WalkPairs(ctxs, context_id) ==
    LET ex == _extract_uid_items(context_id, read_value(ctxs, context_id))
    IN  {<<ex.items[i][1].val, ex.items[i][2]>> : i \in 1..Len(ex.items)}

\* the uids whose index entry is attributed to a layer
IndexOf(idx, context_id) == {u \in DOMAIN idx : idx[u].context_id = context_id}

\* C1: after any sequence of create/update/remove calls, every uid found by
\* walking the stored documents is answered by find_by_uid with the item
\* walked, and every uid find_by_uid answers is found by walking.
IndexConsistent ==
    /\ \A context_id \in DOMAIN contexts :
          \A p \in WalkPairs(contexts, context_id) :
              find_by_uid(uid_index, p[1]) = p[2]
    /\ \A u \in DOMAIN uid_index :
          \E context_id \in DOMAIN contexts :
              <<u, find_by_uid(uid_index, u)>> \in WalkPairs(contexts, context_id)

IsWrite(call) == call.op \in {"create_context", "update_context"}

\* C3: a create_context or update_context either returns with the new
\* document and exactly its index entries visible, or raises and leaves the
\* documents and the index as they were before the call.
WriteAtomic ==
    [][ IsWrite(ret') =>
          IF ret'.raises = "none"
          THEN /\ context_exists(contexts', ret'.args.context_id)
               /\ IndexOf(uid_index', ret'.args.context_id)
                    = {p[1] : p \in WalkPairs(contexts', ret'.args.context_id)}
          ELSE contexts' = contexts /\ uid_index' = uid_index ]_vars

\* C9: read_context(L) right after a returning update_context(L, D, False)
\* or create_context(L, D) returns a document equal to D.
RoundTrip ==
    ( /\ ret.raises = "none"
      /\ \/ ret.op = "create_context"
         \/ ret.op = "update_context" /\ ~ret.args.merge )
    => /\ read_context(contexts, uid_index, ret.args.context_id).raises = "none"
       /\ read_context(contexts, uid_index, ret.args.context_id).value = ret.args.data

\* the layer was replaced wholesale by a document with a nested value and
\* two top-level keys
RoundTripWitness ==
    /\ ret.op = "update_context"
    /\ ~ret.args.merge
    /\ ret.raises = "none"
    /\ ret.args.context_id = "architecture"
    /\ DOMAIN ret.args.data.map = {"architecture"}
    /\ ret.args.data.map["architecture"].py = "dict"
    /\ Len(ret.args.data.map["architecture"].map["components"].items) = MaxItems
    /\ read_value(contexts, "architecture") = ret.args.data

\* the last entry of each uid in a walk: what the INSERT OR REPLACE loop keeps
LastOf(pairs, uid) ==
    LET at == CHOOSE i \in 1..Len(pairs) :
                /\ pairs[i][1].val = uid
                /\ \A j \in (i + 1)..Len(pairs) : pairs[j][1].val # uid
    IN  pairs[at][2]

\* C10: a returning update_context(L, D, merge=True) on an existing document E
\* stores keys(E) union keys(D), with D's value for each key of D and E's
\* value for the others; merge=False (or no E) stores exactly D; the index
\* entries of L are those of the stored document.
MergeSemantics ==
    [][ (ret'.op = "update_context" /\ ret'.raises = "none") =>
          LET L == ret'.args.context_id
              D == ret'.args.data
              stored == read_value(contexts', L)
              walked == _extract_uid_items(L, stored).items
          IN  /\ IF ret'.args.merge /\ context_exists(contexts, L)
                 THEN LET E == read_value(contexts, L)
                      IN  /\ DOMAIN stored.map = DOMAIN E.map \cup DOMAIN D.map
                          /\ \A k \in DOMAIN D.map : stored.map[k] = D.map[k]
                          /\ \A k \in DOMAIN E.map \ DOMAIN D.map :
                                 stored.map[k] = E.map[k]
                 ELSE stored = D
              /\ IndexOf(uid_index', L) = {walked[i][1].val : i \in 1..Len(walked)}
              /\ \A u \in IndexOf(uid_index', L) :
                     find_by_uid(uid_index', u) = LastOf(walked, u) ]_vars

\* a merge whose argument has no item list: the stored document keeps the
\* list of the existing one, and the index keeps its item
MergeWitness ==
    /\ ret.op = "update_context"
    /\ ret.args.merge
    /\ ret.raises = "none"
    /\ ret.args.context_id = "requirements"
    /\ DOMAIN ret.args.data.map = {"note"}
    /\ DOMAIN read_value(contexts, "requirements").map = {"note", "requirements"}
    /\ "req-1" \in IndexOf(uid_index, "requirements")

(***************************************************************************)
(* Errors and lifecycle of a layer document.                               *)
(***************************************************************************)
\* the layer a call names, if it names one
LayerOf(call) ==
    IF "context_id" \in DOMAIN call.args THEN call.args.context_id ELSE "none"

\* C11: create_context on a layer that has a document raises FileExistsError
\* and leaves every document and the whole index as they were.
CreateExisting ==
    [][ (ret'.op = "create_context" /\ context_exists(contexts, ret'.args.context_id)) =>
            /\ ret'.raises = "FileExistsError"
            /\ contexts' = contexts
            /\ uid_index' = uid_index ]_vars

\* a create refused on a layer that holds an indexed item
CreateExistingWitness ==
    /\ ret.op = "create_context"
    /\ ret.raises = "FileExistsError"
    /\ ret.args.context_id = "requirements"
    /\ "req-1" \in IndexOf(uid_index, "requirements")
    /\ "requirements" \in DOMAIN read_value(contexts, "requirements").map

\* C12: read_context and remove_context on a layer without document raise
\* FileNotFoundError, return no value, and leave documents and index as they
\* were.
MissingLayer ==
    [][ ( /\ ret'.op \in {"read_context", "remove_context"}
          /\ ~context_exists(contexts, ret'.args.context_id) ) =>
            /\ ret'.raises = "FileNotFoundError"
            /\ ret'.value = PyNone
            /\ contexts' = contexts
            /\ uid_index' = uid_index ]_vars

\* a read of a missing layer while another layer is stored and indexed
MissingLayerWitness ==
    /\ ret.op = "read_context"
    /\ ret.raises = "FileNotFoundError"
    /\ ret.args.context_id = "architecture"
    /\ ~context_exists(contexts, "architecture")
    /\ "req-1" \in IndexOf(uid_index, "requirements")

\* C13: update_context on a layer without document never raises
\* FileNotFoundError and, when it returns, with merge set or not, the layer
\* exists, read_context gives the document passed, and the layer's index
\* entries are the items of that document.
UpdateCreates ==
    [][ ( /\ ret'.op = "update_context"
          /\ ~context_exists(contexts, ret'.args.context_id) ) =>
            LET L == ret'.args.context_id
                D == ret'.args.data
                walked == _extract_uid_items(L, D).items
            IN  /\ ret'.raises # "FileNotFoundError"
                /\ ret'.raises = "none" =>
                      /\ context_exists(contexts', L)
                      /\ read_context(contexts', uid_index', L).raises = "none"
                      /\ read_context(contexts', uid_index', L).value = D
                      /\ IndexOf(uid_index', L) = {walked[i][1].val : i \in 1..Len(walked)}
                      /\ \A u \in IndexOf(uid_index', L) :
                             find_by_uid(uid_index', u) = LastOf(walked, u) ]_vars

\* a merging update that created the requirements layer with an item
UpdateCreatesWitness ==
    /\ ret.op = "update_context"
    /\ ret.args.merge
    /\ ret.raises = "none"
    /\ ret.args.context_id = "requirements"
    /\ DOMAIN contexts = {"requirements"}
    /\ read_value(contexts, "requirements") = ret.args.data
    /\ IndexOf(uid_index, "requirements") = {"req-1"}
    /\ "note" \notin DOMAIN ret.args.data.map

\* C14: after a returning remove_context(L) the layer does not exist, is not
\* listed, read_context(L) raises FileNotFoundError, no index entry is
\* attributed to L and create_context(L, D) is accepted again; any other call
\* leaves a stored layer stored, and a call on another layer leaves its
\* document as it was.
RemoveThenGone ==
    [][ /\ (ret'.op = "remove_context" /\ ret'.raises = "none") =>
              LET L == ret'.args.context_id
              IN  /\ ~context_exists(contexts', L)
                  /\ L \notin list_contexts(contexts')
                  /\ read_context(contexts', uid_index', L).raises = "FileNotFoundError"
                  /\ IndexOf(uid_index', L) = {}
                  /\ \A D \in DocsFor(L) :
                        LET again == create_context(contexts', uid_index', L, D)
                        IN  /\ again.raises # "FileExistsError"
                            /\ _extract_uid_items(L, D).err = "ok" =>
                                  /\ again.raises = "none"
                                  /\ read_value(again.contexts, L) = D
        /\ \A M \in DOMAIN contexts :
              ~(ret'.op = "remove_context" /\ LayerOf(ret') = M) =>
                  /\ M \in DOMAIN contexts'
                  /\ LayerOf(ret') # M => contexts'[M] = contexts[M] ]_vars

\* the requirements layer removed while the architecture layer stays stored
\* and indexed
RemoveWitness ==
    /\ ret.op = "remove_context"
    /\ ret.raises = "none"
    /\ ret.args.context_id = "requirements"
    /\ ~context_exists(contexts, "requirements")
    /\ "arch-1" \in IndexOf(uid_index, "architecture")

(***************************************************************************)
(* The index as a function of the stored documents.                        *)
(***************************************************************************)
\* the layers whose stored document has an item with this uid
CarriersOf(ctxs, uid) ==
    {L \in DOMAIN ctxs : \E p \in WalkPairs(ctxs, L) : p[1] = uid}

\* C15: in every state create/update/remove calls reach, a rebuild of the
\* index that returns leaves find_by_uid of every uid and gather_related of
\* every uid and depth as they were, and a second rebuild gives the index of
\* the first.
RebuildIdempotent ==
    LET once == _rebuild_uid_index(contexts, uid_index)
        twice == _rebuild_uid_index(contexts, once.uid_index)
    IN  once.err = "ok" =>
            /\ \A u \in StoreUids :
                  find_by_uid(once.uid_index, u) = find_by_uid(uid_index, u)
            /\ \A u \in StoreUids : \A d \in 0..MaxDepth :
                  gather_related(once.uid_index, u, d).value
                      = gather_related(uid_index, u, d).value
            /\ twice.err = "ok"
            /\ twice.uid_index = once.uid_index

\* C16: constructing the store over a database whose uid_index holds
\* arbitrary rows leaves every layer document as it was and, when the
\* constructor returns, an index made of the items of the persisted
\* documents: every entry is an item found by walking the document of the
\* layer it is attributed to, every uid found by walking has an entry, and a
\* uid that a single item carries has that item as its entry.
StartupRecovery ==
    [][ ret'.op = "__init__" =>
          /\ contexts' = contexts
          /\ ret'.raises = "none" =>
                /\ \A u \in DOMAIN uid_index' :
                      /\ uid_index'[u].context_id \in DOMAIN contexts'
                      /\ <<u, find_by_uid(uid_index', u)>>
                            \in WalkPairs(contexts', uid_index'[u].context_id)
                /\ \A L \in DOMAIN contexts' : \A p \in WalkPairs(contexts', L) :
                      /\ p[1] \in DOMAIN uid_index'
                      /\ ( /\ CarriersOf(contexts', p[1]) = {L}
                           /\ \A q \in WalkPairs(contexts', L) : q[1] = p[1] => q = p )
                         => /\ uid_index'[p[1]].context_id = L
                            /\ find_by_uid(uid_index', p[1]) = p[2] ]_vars

\* a store constructed over rows of a removed layer and outdated rows of a
\* stored one
StartupWitness ==
    /\ ret.op = "__init__"
    /\ ret.raises = "none"
    /\ DOMAIN contexts = {"requirements", "architecture"}
    /\ DOMAIN uid_index = {"req-1", "arch-1"}
    /\ find_by_uid(uid_index, "req-1") = Requirement("req-1", "new")
    /\ uid_index["arch-1"].context_id = "architecture"

\* C17: in every state a create, update or remove leaves, returning or
\* raising, and after a rebuild in that state, every index entry is
\* attributed to a layer that has a stored document.
IndexPointsAtStored ==
    /\ \A u \in DOMAIN uid_index : uid_index[u].context_id \in DOMAIN contexts
    /\ LET rebuilt == _rebuild_uid_index(contexts, uid_index).uid_index
       IN  \A u \in DOMAIN rebuilt : rebuilt[u].context_id \in DOMAIN contexts

\* a layer with an indexed item removed while another keeps its entry
IndexPointsWitness ==
    /\ ret.op = "remove_context"
    /\ ret.raises = "none"
    /\ ret.args.context_id = "architecture"
    /\ DOMAIN contexts = {"requirements"}
    /\ DOMAIN uid_index = {"req-1"}

\* the rows of an index attributed to layers other than L
RowsOutside(idx, L) == {<<u, idx[u]>> : u \in {x \in DOMAIN idx : idx[x].context_id # L}}

\* C18: a returning create_context, update_context or remove_context on
\* layer L leaves the document of every other layer and every index entry
\* attributed to another layer (uid, layer, item) as they were.
FrameConfined ==
    [][ ( /\ ret'.op \in {"create_context", "update_context", "remove_context"}
          /\ ret'.raises = "none" ) =>
            LET L == ret'.args.context_id
            IN  /\ \A M \in DOMAIN contexts \ {L} :
                      M \in DOMAIN contexts' /\ contexts'[M] = contexts[M]
                /\ RowsOutside(uid_index', L) = RowsOutside(uid_index, L) ]_vars

(***************************************************************************)
(* Which items of a document the index holds.                              *)
(***************************************************************************)
\* the elements of the list under key k of dict d
ListAt(d, k) ==
    IF k \in DOMAIN d.map THEN {d.map[k].items[i] : i \in 1..Len(d.map[k].items)} ELSE {}

\* the items that carry a non-empty uid
Addressable(S) == {x \in S : "uid" \in DOMAIN x.map /\ x.map["uid"].val # ""}

\* the addressable items of a document, by the shape of its layer
ShapeItems(L, D) ==
    CASE L = "requirements" -> Addressable(ListAt(D, "requirements"))
      [] L = "architecture" ->
            IF "architecture" \in DOMAIN D.map
            THEN Addressable(ListAt(D.map["architecture"], "components"))
            ELSE {}
      [] L = "implementation" ->
            LET files == ListAt(D, "files")
                classes == UNION {ListAt(f, "classes") : f \in files}
                methods == UNION {ListAt(c, "methods") : c \in classes}
                functions == UNION {ListAt(f, "functions") : f \in files}
            IN  Addressable(classes \cup methods \cup functions)
      [] OTHER -> {}

\* C19: writing a layer leaves exactly one index entry attributed to it for
\* every item of the layer's shape with a non-empty uid, holding that item,
\* and none for an item without uid: the requirements list, the components
\* of architecture, and for implementation the classes, the methods of every
\* class (with or without uid) and the functions of every file; a document
\* under any other layer name leaves no entry.
ItemExtraction ==
    ret.op = "update_context" =>
        LET L == ret.args.context_id
            expected == ShapeItems(L, ret.args.data)
        IN  /\ ret.raises = "none"
            /\ {<<u, find_by_uid(uid_index, u)>> : u \in IndexOf(uid_index, L)}
                  = {<<x.map["uid"].val, x>> : x \in expected}
            /\ Cardinality(IndexOf(uid_index, L)) = Cardinality(expected)
            /\ DOMAIN uid_index = IndexOf(uid_index, L)

\* two files, the first with a class without uid whose method has one
ExtractionWitness ==
    /\ ret.op = "update_context"
    /\ ret.args.context_id = "implementation"
    /\ "files" \in DOMAIN ret.args.data.map
    /\ Len(ret.args.data.map["files"].items) = 2
    /\ \E f \in ListAt(ret.args.data, "files") :
          \E c \in ListAt(f, "classes") :
              /\ "uid" \notin DOMAIN c.map
              /\ Entity("mtd-1") \in ListAt(c, "methods")
    /\ DOMAIN uid_index = {"mtd-1", "cls-4", "fn-1", "cls-2", "fn-2"}

(***************************************************************************)
(* The status query and the status advance.                                *)
(***************************************************************************)
\* the indexed uids whose item has the given status
ItemsWithStatus(idx, status) ==
    {u \in DOMAIN idx : DictGet(find_by_uid(idx, u), "status", PyNone) = PyStr(status)}

\* the document with the status of the items of one uid set to a value
WithStatus(D, uid, status) ==
    PyDict([k \in DOMAIN D.map |->
        IF k # "requirements" THEN D.map[k]
        ELSE PyList([i \in 1..Len(D.map[k].items) |->
                LET r == D.map[k].items[i]
                IN  IF DictGet(r, "uid", PyNone) = PyStr(uid)
                    THEN dict_update(r, PyDict([status |-> PyStr(status)]))
                    ELSE r])])

\* C20: the store provides find_by_status and update_item_status, and for an
\* indexed requirement with status 'new', update_item_status(uid, 'reviewed')
\* returns true, changes only that item's status in its layer document, and
\* leaves the item among those with status 'reviewed' and not among 'new'.
StatusAdvance ==
    [][ ( /\ ret'.op = "update_item_status"
          /\ ret'.args.new_status = "reviewed"
          /\ ret'.args.uid \in ItemsWithStatus(uid_index, "new")
          /\ uid_index[ret'.args.uid].context_id = "requirements" ) =>
            /\ GetAttr("find_by_status") = "none"
            /\ ret'.raises = "none"
            /\ ret'.value = PyBool(TRUE)
            /\ ret'.args.uid \in ItemsWithStatus(uid_index', "reviewed")
            /\ ret'.args.uid \notin ItemsWithStatus(uid_index', "new")
            /\ DOMAIN contexts' = DOMAIN contexts
            /\ \A L \in DOMAIN contexts :
                  read_value(contexts', L) =
                      IF L = "requirements"
                      THEN WithStatus(read_value(contexts, L), ret'.args.uid, "reviewed")
                      ELSE read_value(contexts, L) ]_vars

(***************************************************************************)
(* The export.                                                             *)
(***************************************************************************)
\* C21: dump_to_json returns one path per stored layer, <layer>.json, each
\* file parsing to what read_context gives for the layer, leaves no
\* temporary file of a stored layer, leaves the other files of the directory
\* alone, and leaves documents and index unchanged; an empty store gives an
\* empty list.
ExportFaithful ==
    [][ ret'.op = "dump_to_json" =>
          LET written == ret'.value.written
              after == ret'.value.dir
              before == ret'.args.dir
              own == {JsonPath(L) : L \in DOMAIN contexts}
                        \cup {TmpPath(L) : L \in DOMAIN contexts}
          IN  /\ ret'.raises = "none"
              /\ Len(written) = Cardinality(DOMAIN contexts)
              /\ {written[i] : i \in 1..Len(written)} = {JsonPath(L) : L \in DOMAIN contexts}
              /\ \A L \in DOMAIN contexts :
                    /\ JsonPath(L) \in DOMAIN after
                    /\ json_loads(after[JsonPath(L)])
                          = read_context(contexts, uid_index, L).value
                    /\ TmpPath(L) \notin DOMAIN after
              /\ DOMAIN after \ own = DOMAIN before \ own
              /\ \A p \in DOMAIN before \ own : after[p] = before[p]
              /\ contexts' = contexts
              /\ uid_index' = uid_index ]_vars

\* two layers exported over the file of an earlier export
ExportWitness ==
    /\ ret.op = "dump_to_json"
    /\ DOMAIN contexts = {"requirements", "architecture"}
    /\ "req-1" \in DOMAIN uid_index
    /\ JsonPath("requirements") \in DOMAIN ret.args.dir
    /\ ret.value.written = <<JsonPath("architecture"), JsonPath("requirements")>>
    /\ ret.value.dir[JsonPath("requirements")] # ret.args.dir[JsonPath("requirements")]

(***************************************************************************)
(* Identities.                                                             *)
(***************************************************************************)
LowerHex == {HexDigits[i] : i \in 1..16}

\* C22: make_uid(kind, *parts) is the kind, a hyphen and 8 lowercase
\* hexadecimal characters, and is the value the function has for these
\* arguments whenever it is computed.
UidFormat ==
    ret.op = "make_uid" =>
        LET kind == ret.args.prefix
            uid == ret.value
        IN  /\ ret.raises = "none"
            /\ Len(uid) = Len(kind) + 9
            /\ SubSeq(uid, 1, Len(kind)) = kind
            /\ uid[Len(kind) + 1] = "-"
            /\ \A i \in (Len(kind) + 2)..Len(uid) : uid[i] \in LowerHex
            /\ uid = make_uid(kind, ret.args.parts)

\* make_uid("req", "a", "b") = "req-6783a31e"
UidWitness ==
    /\ ret.op = "make_uid"
    /\ ret.args.prefix = <<"r", "e", "q">>
    /\ ret.args.parts = << <<"a">>, <<"b">> >>
    /\ ret.value = <<"r", "e", "q", "-", "6", "7", "8", "3", "a", "3", "1", "e">>

\* C23: two different part tuples (in content, order or split) give make_uid
\* different key strings to hash, so that their uids can be equal only by a
\* collision of the hash.
KeysDistinct ==
    ret.op = "make_uid" =>
        \A other \in PartTuples :
            other # ret.args.parts => Join(other) # Join(ret.args.parts)

(***************************************************************************)
(* The services and the relationships they store.                          *)
(***************************************************************************)
\* C27: after any sequence of create_requirement, update_requirement,
\* delete_requirement and apply_changes from an empty store no two stored
\* requirements share a uid, and find_by_uid of a stored requirement's uid
\* returns that requirement.
UniqueRequirements ==
    LET reqs == req_load(contexts)
    IN  /\ \A i, j \in 1..Len(reqs) : i # j => UidOf(reqs[i]) # UidOf(reqs[j])
        /\ \A i \in 1..Len(reqs) : find_by_uid(uid_index, UidOf(reqs[i])) = reqs[i]

\* the uids an indexed item lists in related_to
ListedBy(uid) ==
    LET refs == RefsOf(find_by_uid(uid_index, uid))
    IN  {refs[i] : i \in 1..Len(refs)}

\* C24: once the initializer, design_functions_for_component or
\* update_architecture has stored its layers, whenever an indexed item X
\* lists another indexed item Y in related_to, gather_related(Y, 1) holds X
\* among its related items and gather_related(X, 1) holds Y.
QueryableFromEitherEnd ==
    (/\ ret.op \in {"initialize", "design_functions_for_component", "update_architecture"}
     /\ ret.raises = "none")
        => \A x, y \in DOMAIN uid_index :
               (x # y /\ y \in ListedBy(x))
                   => /\ x \in DOMAIN gather_related(uid_index, y, 1).value.related
                      /\ y \in DOMAIN gather_related(uid_index, x, 1).value.related

(***************************************************************************)
(* The traversal as a function of its budget and of its entry point.       *)
(***************************************************************************)
\* C25: every uid gather_related(uid, d) returns among the related items is
\* among the related items of gather_related(uid, d + 1) too.
MonotoneInDepth ==
    ret.op = "gather_related" =>
        DOMAIN ret.value.related
            \subseteq DOMAIN gather_related(uid_index, ret.args.uid,
                                            ret.args.depth + 1).value.related

\* C26: gather_related_batch([uid], depth) returns the related items
\* gather_related(uid, depth) returns; its items are {uid: root} when uid is
\* indexed, and {} with no related item when it is not.
BatchAgreesWithSingle ==
    /\ (ret.op = "gather_related_batch" /\ Len(ret.args.uids) = 1) =>
            LET uid == ret.args.uids[1]
                single == gather_related(uid_index, uid, ret.args.depth).value
            IN  /\ ret.value.related = single.related
                /\ ret.value.items = IF uid \in DOMAIN uid_index
                                     THEN Upsert(EmptyTable, uid, single.root)
                                     ELSE EmptyTable
                /\ uid \notin DOMAIN uid_index => ret.value.related = EmptyTable
    /\ ret.op = "gather_related" =>
            ret.value.related
                = gather_related_batch(uid_index, <<ret.args.uid>>,
                                       ret.args.depth).value.related

\* one seed, two hops: the batch collects the chain the single call collects
BatchSingleWitness ==
    /\ ret.op = "gather_related_batch"
    /\ ret.args.uids = <<"req-a">>
    /\ ret.args.depth = 2
    /\ RefsOf(find_by_uid(uid_index, "req-a")) = <<"req-b">>
    /\ RefsOf(find_by_uid(uid_index, "req-b")) = <<"arch-c">>
    /\ DOMAIN ret.value.items = {"req-a"}
    /\ DOMAIN ret.value.related = {"req-b", "arch-c"}

(***************************************************************************)
(* The merges of relationship lists.                                       *)
(***************************************************************************)
PositionIn(s, v) == Least({i \in 1..Len(s) : s[i] = v})

\* merged holds every member of prev and of new once, the members of prev in
\* the order prev has them and ahead of the members only new has
OrderedUnion(merged, prev, new) ==
    LET old == {prev[i] : i \in 1..Len(prev)}
        added == {new[i] : i \in 1..Len(new)} \ old
    IN  /\ NoRepeats(merged)
        /\ {merged[i] : i \in 1..Len(merged)} = old \cup added
        /\ \A u, v \in old :
               PositionIn(prev, u) < PositionIn(prev, v)
                   => PositionIn(merged, u) < PositionIn(merged, v)
        /\ \A u \in old : \A v \in added : PositionIn(merged, u) < PositionIn(merged, v)

RelatedOf(item) == StrsOf(DictGet(item, "related_to", EmptyList))

ComponentsOf(ctxs) == DictGet(arch_load(ctxs), "components", EmptyList).items

\* update_requirement given a related_to: the requirement of that title
\* before and after the call
RequirementMerge ==
    (/\ ret'.op = "update_requirement"
     /\ ret'.raises = "none"
     /\ "related_to" \in DOMAIN ret'.args.updates.map)
        => LET title == PyStr(ret'.args.title)
               i == FirstIndex(req_load(contexts), LAMBDA r : r.map["title"] = title)
           IN  OrderedUnion(RelatedOf(req_load(contexts')[i]),
                            RelatedOf(req_load(contexts)[i]),
                            RelatedOf(ret'.args.updates))

\* update_architecture with an 'update' of a stored component (the calls of
\* the specification carry one change): the component before and after
ComponentMerge ==
    (ret'.op = "update_architecture" /\ ret'.raises = "none")
        => LET change == ret'.args.changes.items[1]
               name == change.map["component"].map["component"]
               i == FirstIndex(ComponentsOf(contexts), LAMBDA c : c.map["component"] = name)
           IN  (change.map["action"] = PyStr("update") /\ i # 0)
                   => OrderedUnion(RelatedOf(ComponentsOf(contexts')[i]),
                                   RelatedOf(ComponentsOf(contexts)[i]),
                                   RelatedOf(change.map["component"]))

\* _backfill_arch_related_to in a run of the initializer: each component as
\* _assign_arch_uids left it, the uids of the stored requirements that name
\* it, and the component as stored
BackfillMerge ==
    (ret'.op = "initialize" /\ ret'.raises = "none")
        => LET analysed == <<_assign_impl_uids(DictSet(FileAnalysis, "file", PyStr("f.py")))>>
               assigned == _assign_arch_uids(ret'.args.inferred, analysed).map["components"].items
               stored == ComponentsOf(contexts')
           IN  \A i \in 1..Len(stored) :
                   OrderedUnion(RelatedOf(stored[i]), RelatedOf(assigned[i]),
                                StrsOf(PyList(Reverse(req_load(contexts'), UidOf(stored[i])))))

\* C28: update_requirement, the 'update' action of update_architecture and
\* _backfill_arch_related_to each store a related_to that holds every uid
\* stored before and every uid supplied exactly once, the uids stored before
\* in their earlier order and ahead of the added ones.
MergeKeepsOrder == [][RequirementMerge /\ ComponentMerge /\ BackfillMerge]_vars

(***************************************************************************)
(* The layers the initializer stores.                                      *)
(***************************************************************************)
\* the classes, methods and functions of the stored implementation layer
ImplItems(files) ==
    LET ItemsIn(d, key) ==
            {DictGet(d, key, EmptyList).items[i] :
                i \in 1..Len(DictGet(d, key, EmptyList).items)}
        classes == UNION {ItemsIn(files[i], "classes") : i \in 1..Len(files)}
    IN  classes
            \cup UNION {ItemsIn(cls, "methods") : cls \in classes}
            \cup UNION {ItemsIn(files[i], "functions") : i \in 1..Len(files)}

\* the uids of the items of a list whose related_to holds uid, in order
OwnersOf(items, uid) ==
    LET owners == SelectSeq(items, LAMBDA c : uid \in SetOf(DictGet(c, "related_to", EmptyList)))
    IN  [i \in 1..Len(owners) |-> UidOf(owners[i])]

\* C29: after a run of the initializer each stored class, method and function
\* has for related_to the list of the uids of the stored components whose
\* related_to holds its uid, and each stored component's related_to holds the
\* uid of every stored requirement whose related_to holds the component's
\* uid, and holds no uid twice.
BackfilledBothWays ==
    (ret.op = "initialize" /\ ret.raises = "none")
        => LET comps == ComponentsOf(contexts)
               reqs == req_load(contexts)
           IN  /\ \A item \in ImplItems(impl_load(contexts)) :
                      RelatedOf(item) = OwnersOf(comps, UidOf(item))
               /\ \A i \in 1..Len(comps) :
                      /\ NoRepeats(RelatedOf(comps[i]))
                      /\ \A k \in 1..Len(reqs) :
                             UidOf(comps[i]) \in SetOf(DictGet(reqs[k], "related_to", EmptyList))
                                 => \E n \in 1..Len(RelatedOf(comps[i])) :
                                        RelatedOf(comps[i])[n] = UidOf(reqs[k])

(***************************************************************************)
(* The review session.                                                     *)
(***************************************************************************)
\* the place of an item's status along new -> reviewed -> done; review_items
\* reads a missing status as 'new'
StatusRank(item) ==
    LET status == DictGet(item, "status", PyStr("new"))
    IN  CASE status = PyStr("new") -> 0
          [] status = PyStr("reviewed") -> 1
          [] status = PyStr("done") -> 2
          [] OTHER -> 0

\* C30: a review_items session lists its items and offers each of them, and
\* over the session the status of an item stays where it was or moves one
\* step forward along new -> reviewed -> done; an item that was 'done' stays
\* 'done' and no item moves backwards.
ReviewProgression ==
    [][ ret'.op = "review_items" =>
            /\ ret'.raises = "none"
            /\ DOMAIN uid_index' = DOMAIN uid_index
            /\ \A u \in DOMAIN uid_index :
                   LET before == StatusRank(find_by_uid(uid_index, u))
                       after == StatusRank(find_by_uid(uid_index', u))
                   IN  /\ after \in {before, before + 1}
                       /\ before = 2 => after = 2 ]_vars

====
